---- MODULE Spec2Model ----
(***************************************************************************)
(* A model of bevy_glfw: the per-window native handle wrapper (GlfwWindow), *)
(* the callback bridge (CallbackMetadata), the monitor resolver, the        *)
(* window-mode controller and the run loop (glfw_runner / change_window).   *)
(*                                                                         *)
(* Conventions.  Vectors (IVec2, UVec2, DVec2) are records [x, y].  A       *)
(* monitor handle is its 1-based place in the enumeration order of          *)
(* glfwGetMonitors, so the primary monitor (enumeration index 0 in the      *)
(* source) is handle 1; the null monitor pointer is NULL.  A native window  *)
(* handle is identified with the WindowId it was created for.  The native   *)
(* library is modelled as honouring the geometry it is asked for and        *)
(* reporting each change through the registered callbacks.                  *)
(***************************************************************************)
EXTENDS Integers, Sequences, FiniteSets, TLC

VARIABLES
    platform,              \* glfwGetPlatform(): "x11" or "wayland"
    raw_motion_supported,  \* glfwRawMouseMotionSupported()
    monitors,              \* glfwGetMonitors(): sequence of [x, y, width, height]
    windows,               \* GlfwWindows.windows : WindowId -> GlfwWindow
    native,                \* the native library's state of every created handle
    events,                \* CallbackMetadata.events of every created handle
    bevy_windows,          \* the application's Windows resource : WindowId -> Window
    sent,                  \* application events sent since the last drain, per window
    calls,                 \* native calls made by the last step, per handle, in order
    create_window_events,  \* Events<CreateWindow> not yet drained
    app_exit,              \* an AppExit event has been raised
    terminated,            \* number of glfwTerminate() calls so far
    pc,                    \* position of glfw_runner
    ret                    \* result of the last direct application of a pure function

vars == <<platform, raw_motion_supported, monitors, windows, native, events,
          bevy_windows, sent, calls, create_window_events, app_exit,
          terminated, pc, ret>>

(***************************************************************************)
(* Bounds of the model.                                                    *)
(***************************************************************************)
MaxWindows == 2      \* WindowIds 1..MaxWindows
MaxQueue == 2        \* callbacks delivered to one window in one poll
MaxCommands == 2     \* commands the application queues per window per frame
MaxMonitors == 2     \* monitors in a drawn monitor layout
MaxCoord == 2        \* extent of the coordinates drawn for the pure functions

WindowIds == 1..MaxWindows

NULL == 0
GLFW_DONT_CARE == -1
I32_MAX == 2147483647
I32_MIN == -I32_MAX - 1

\* Option::None
Nothing == [none |-> TRUE]

\* Option::Some
Some(v) == [some |-> v]

IVec2(x, y) == [x |-> x, y |-> y]
UVec2(x, y) == [x |-> x, y |-> y]

Max(a, b) == IF a >= b THEN a ELSE b
Min(a, b) == IF a <= b THEN a ELSE b

Monitor(x, y, w, h) == [x |-> x, y |-> y, width |-> w, height |-> h]

(***************************************************************************)
(* Monitor geometry resolver.                                              *)
(***************************************************************************)
\* The key of max_by_key: the visible area of the window on monitor m.
visible_area(win, m) ==
    LET window_left == win.pos.x
        window_top == win.pos.y
        window_right == window_left + win.size.x
        window_bottom == window_top + win.size.y
        monitor_left == monitors[m].x
        monitor_top == monitors[m].y
        monitor_right == monitor_left + monitors[m].width
        monitor_bottom == monitor_top + monitors[m].height
        visible_left == Min(Max(window_left, monitor_left), monitor_right)
        visible_top == Min(Max(window_top, monitor_top), monitor_bottom)
        visible_right == Max(Min(window_right, monitor_right), monitor_left)
        visible_bottom == Max(Min(window_bottom, monitor_bottom), monitor_top)
    IN  (visible_right - visible_left) * (visible_bottom - visible_top)

\* Mutant: the first maximum wins.
RECURSIVE max_by_key_first_wins(_, _, _, _)
max_by_key_first_wins(win, order, i, best) ==
    IF i > Len(order) THEN best
    ELSE max_by_key_first_wins(win, order, i + 1,
                               IF visible_area(win, order[i]) > visible_area(win, best)
                               THEN order[i] ELSE best)

\* Iterator::max_by_key over the handles order[i..]: a later element replaces
\* the best so far when its key is at least as large (the last maximum wins).
RECURSIVE max_by_key(_, _, _, _)
max_by_key(win, order, i, best) ==
    IF i > Len(order) THEN best
    ELSE max_by_key(win, order, i + 1,
                    IF visible_area(win, order[i]) >= visible_area(win, best)
                    THEN order[i] ELSE best)

\* .rev(): the monitor handles from the last to the first.
rev_monitors == [i \in 1..Len(monitors) |-> Len(monitors) + 1 - i]

current_monitor(win) ==
    IF platform = "wayland" THEN 1
    ELSE max_by_key(win, rev_monitors, 2, rev_monitors[1])

(***************************************************************************)
(* f32 values.  A value is [k, h]: k = "fin" is the finite value h/2 (h = 0 *)
(* is zero), "sub" a subnormal of sign h, "inf" an infinity of sign h,      *)
(* "nan" a NaN.                                                             *)
(***************************************************************************)
F32(k, h) == [k |-> k, h |-> h]

\* f32::is_normal: neither zero, subnormal, infinite nor NaN.
is_normal(dim) == dim.k = "fin" /\ dim.h # 0

\* `dim as c_int`: truncation toward zero, saturating; NaN gives 0.
as_c_int(dim) ==
    CASE dim.k = "nan" -> 0
      [] dim.k = "sub" -> 0
      [] dim.k = "inf" -> IF dim.h > 0 THEN I32_MAX ELSE I32_MIN
      [] OTHER -> LET t == IF dim.h >= 0 THEN dim.h \div 2 ELSE -((-dim.h) \div 2)
                  IN  Max(I32_MIN, Min(I32_MAX, t))

\* The closure `conv` of set_resize_constraints.
conv(dim) == IF is_normal(dim) THEN as_c_int(dim) ELSE GLFW_DONT_CARE

(***************************************************************************)
(* Callback bridge: each callback pushes onto the events of the window's    *)
(* CallbackMetadata.  q is that Vec<GlfwEvent>.                             *)
(***************************************************************************)
windowclose(q) == Append(q, [type |-> "WindowClose"])

windowfocus(q, focused) == Append(q, [type |-> "WindowFocused", focused |-> focused])

\* assert_eq!(xscale, yscale) comes first: see windowcontentscale_panics.
windowcontentscale(q, xscale, yscale) ==
    Append(q, [type |-> "WindowContentScale", scale_factor |-> xscale])

\* Mutant: the callback does not compare the two scales.
windowcontentscale_unasserted(xscale, yscale) == FALSE

windowcontentscale_panics(xscale, yscale) == xscale # yscale

windowpos(q, xpos, ypos) ==
    Append(q, [type |-> "WindowPos", position |-> IVec2(xpos, ypos)])

windowsize(q, width, height) ==
    Append(q, [type |-> "WindowSize", size |-> UVec2(width, height)])

\* The records of the paths of a drop that are valid Unicode.
dropped(window_id, paths) ==
    [i \in DOMAIN paths |-> [type |-> "Drop", id |-> window_id, path |-> paths[i].path]]

IsUtf8(path) == path.utf8

\* The paths before the first one that is not valid Unicode.
RECURSIVE until_invalid(_)
until_invalid(paths) ==
    IF paths = <<>> \/ ~Head(paths).utf8 THEN <<>>
    ELSE <<Head(paths)>> \o until_invalid(Tail(paths))

\* Mutant: the drop ends at the first path that is not valid Unicode.
drop_until_invalid(q, window_id, paths) == q \o dropped(window_id, until_invalid(paths))

drop_(q, window_id, paths) == q \o dropped(window_id, SelectSeq(paths, IsUtf8))

scroll(q, xoffset, yoffset) == Append(q, [type |-> "Scroll", x |-> xoffset, y |-> yoffset])

cursorenter(q, entered) == Append(q, [type |-> "CursorEnter", entered |-> entered])

cursorpos(q, xpos, ypos) ==
    Append(q, [type |-> "CursorPos", pos |-> [x |-> xpos, y |-> ypos]])

framebuffersize(q, width, height) ==
    Append(q, [type |-> "FramebufferSize", size |-> UVec2(width, height)])

\* The button of MouseButtonInput; other as u16 wraps.
mouse_button(button) ==
    CASE button + 1 = 1 -> [button |-> "Left"]
      [] button + 1 = 2 -> [button |-> "Right"]
      [] button + 1 = 3 -> [button |-> "Middle"]
      [] OTHER -> [button |-> "Other", other |-> (button + 1) % 65536]

\* Any action but press and release is unreachable!().
mousebutton(q, button, action) ==
    Append(q, [type |-> "MouseButton",
               button |-> mouse_button(button),
               state |-> CASE action = "GLFW_PRESS" -> "Pressed"
                           [] action = "GLFW_RELEASE" -> "Released"])

\* char::from_u32: no char for a surrogate or a value above 0x10FFFF.
from_u32(codepoint) ==
    IF codepoint \in 0..1114111 /\ codepoint \notin 55296..57343
    THEN Some(codepoint) ELSE Nothing

\* Mutant: the callback pushes a record for every code point.
char_of_any_codepoint(q, codepoint) ==
    Append(q, [type |-> "Char", char |-> codepoint])

char_(q, codepoint) ==
    IF from_u32(codepoint) # Nothing
    THEN Append(q, [type |-> "Char", char |-> from_u32(codepoint).some])
    ELSE q

\* The arms of the match on key that give Some(KeyCode).
KeyCodes ==
    "GLFW_KEY_SPACE" :> "Space" @@ "GLFW_KEY_APOSTROPHE" :> "Apostrophe" @@
    "GLFW_KEY_COMMA" :> "Comma" @@ "GLFW_KEY_MINUS" :> "Minus" @@
    "GLFW_KEY_PERIOD" :> "Period" @@ "GLFW_KEY_SLASH" :> "Slash" @@
    "GLFW_KEY_0" :> "Key0" @@ "GLFW_KEY_1" :> "Key1" @@
    "GLFW_KEY_2" :> "Key2" @@ "GLFW_KEY_3" :> "Key3" @@
    "GLFW_KEY_4" :> "Key4" @@ "GLFW_KEY_5" :> "Key5" @@
    "GLFW_KEY_6" :> "Key6" @@ "GLFW_KEY_7" :> "Key7" @@
    "GLFW_KEY_8" :> "Key8" @@ "GLFW_KEY_9" :> "Key9" @@
    "GLFW_KEY_SEMICOLON" :> "Semicolon" @@ "GLFW_KEY_EQUAL" :> "Equals" @@
    "GLFW_KEY_A" :> "A" @@ "GLFW_KEY_B" :> "B" @@ "GLFW_KEY_C" :> "C" @@
    "GLFW_KEY_D" :> "D" @@ "GLFW_KEY_E" :> "E" @@ "GLFW_KEY_F" :> "F" @@
    "GLFW_KEY_G" :> "G" @@ "GLFW_KEY_H" :> "H" @@ "GLFW_KEY_I" :> "I" @@
    "GLFW_KEY_J" :> "J" @@ "GLFW_KEY_K" :> "K" @@ "GLFW_KEY_L" :> "L" @@
    "GLFW_KEY_M" :> "M" @@ "GLFW_KEY_N" :> "N" @@ "GLFW_KEY_O" :> "O" @@
    "GLFW_KEY_P" :> "P" @@ "GLFW_KEY_Q" :> "Q" @@ "GLFW_KEY_R" :> "R" @@
    "GLFW_KEY_S" :> "S" @@ "GLFW_KEY_T" :> "T" @@ "GLFW_KEY_U" :> "U" @@
    "GLFW_KEY_V" :> "V" @@ "GLFW_KEY_W" :> "W" @@ "GLFW_KEY_X" :> "X" @@
    "GLFW_KEY_Y" :> "Y" @@ "GLFW_KEY_Z" :> "Z" @@
    "GLFW_KEY_LEFT_BRACKET" :> "LBracket" @@
    "GLFW_KEY_BACKSLASH" :> "Backslash" @@
    "GLFW_KEY_RIGHT_BRACKET" :> "RBracket" @@
    "GLFW_KEY_GRAVE_ACCENT" :> "Grave" @@ "GLFW_KEY_ESCAPE" :> "Escape" @@
    "GLFW_KEY_ENTER" :> "Return" @@ "GLFW_KEY_TAB" :> "Tab" @@
    "GLFW_KEY_BACKSPACE" :> "Back" @@ "GLFW_KEY_INSERT" :> "Insert" @@
    "GLFW_KEY_DELETE" :> "Delete" @@ "GLFW_KEY_RIGHT" :> "Right" @@
    "GLFW_KEY_LEFT" :> "Left" @@ "GLFW_KEY_DOWN" :> "Down" @@
    "GLFW_KEY_UP" :> "Up" @@ "GLFW_KEY_PAGE_UP" :> "PageUp" @@
    "GLFW_KEY_PAGE_DOWN" :> "PageDown" @@ "GLFW_KEY_HOME" :> "Home" @@
    "GLFW_KEY_END" :> "End" @@ "GLFW_KEY_SCROLL_LOCK" :> "Scroll" @@
    "GLFW_KEY_NUM_LOCK" :> "Numlock" @@
    "GLFW_KEY_PRINT_SCREEN" :> "Snapshot" @@ "GLFW_KEY_PAUSE" :> "Pause" @@
    "GLFW_KEY_F1" :> "F1" @@ "GLFW_KEY_F2" :> "F2" @@
    "GLFW_KEY_F3" :> "F3" @@ "GLFW_KEY_F4" :> "F4" @@
    "GLFW_KEY_F5" :> "F5" @@ "GLFW_KEY_F6" :> "F6" @@
    "GLFW_KEY_F7" :> "F7" @@ "GLFW_KEY_F8" :> "F8" @@
    "GLFW_KEY_F9" :> "F9" @@ "GLFW_KEY_F10" :> "F10" @@
    "GLFW_KEY_F11" :> "F11" @@ "GLFW_KEY_F12" :> "F12" @@
    "GLFW_KEY_F13" :> "F13" @@ "GLFW_KEY_F14" :> "F14" @@
    "GLFW_KEY_F15" :> "F15" @@ "GLFW_KEY_F16" :> "F16" @@
    "GLFW_KEY_F17" :> "F17" @@ "GLFW_KEY_F18" :> "F18" @@
    "GLFW_KEY_F19" :> "F19" @@ "GLFW_KEY_F20" :> "F20" @@
    "GLFW_KEY_F21" :> "F21" @@ "GLFW_KEY_F22" :> "F22" @@
    "GLFW_KEY_F23" :> "F23" @@ "GLFW_KEY_F24" :> "F24" @@
    "GLFW_KEY_KP_0" :> "Numpad0" @@ "GLFW_KEY_KP_1" :> "Numpad1" @@
    "GLFW_KEY_KP_2" :> "Numpad2" @@ "GLFW_KEY_KP_3" :> "Numpad3" @@
    "GLFW_KEY_KP_4" :> "Numpad4" @@ "GLFW_KEY_KP_5" :> "Numpad5" @@
    "GLFW_KEY_KP_6" :> "Numpad6" @@ "GLFW_KEY_KP_7" :> "Numpad7" @@
    "GLFW_KEY_KP_8" :> "Numpad8" @@ "GLFW_KEY_KP_9" :> "Numpad9" @@
    "GLFW_KEY_KP_DECIMAL" :> "NumpadDecimal" @@
    "GLFW_KEY_KP_DIVIDE" :> "NumpadDivide" @@
    "GLFW_KEY_KP_MULTIPLY" :> "NumpadMultiply" @@
    "GLFW_KEY_KP_SUBTRACT" :> "NumpadSubtract" @@
    "GLFW_KEY_KP_ADD" :> "NumpadAdd" @@
    "GLFW_KEY_KP_ENTER" :> "NumpadEnter" @@
    "GLFW_KEY_KP_EQUAL" :> "NumpadEquals" @@
    "GLFW_KEY_LEFT_SHIFT" :> "LShift" @@
    "GLFW_KEY_LEFT_CONTROL" :> "LControl" @@ "GLFW_KEY_LEFT_ALT" :> "LAlt" @@
    "GLFW_KEY_LEFT_SUPER" :> "LWin" @@ "GLFW_KEY_RIGHT_SHIFT" :> "RShift" @@
    "GLFW_KEY_RIGHT_CONTROL" :> "RControl" @@
    "GLFW_KEY_RIGHT_ALT" :> "RAlt" @@ "GLFW_KEY_RIGHT_SUPER" :> "RWin"

\* Mutant: a repeat has a state of its own.
key_with_repeated(q, key_, scancode, action) ==
    Append(q, [type |-> "Key",
               scan_code |-> scancode,
               key_code |-> IF key_ \in DOMAIN KeyCodes THEN Some(KeyCodes[key_])
                            ELSE Nothing,
               state |-> CASE action = "GLFW_PRESS" -> "Pressed"
                           [] action = "GLFW_REPEAT" -> "Repeated"
                           [] action = "GLFW_RELEASE" -> "Released"])

\* Any action but press, repeat and release is unreachable!().
key(q, key_, scancode, action) ==
    Append(q, [type |-> "Key",
               scan_code |-> scancode,
               key_code |-> IF key_ \in DOMAIN KeyCodes THEN Some(KeyCodes[key_])
                            ELSE Nothing,
               state |-> CASE action \in {"GLFW_PRESS", "GLFW_REPEAT"} -> "Pressed"
                           [] action = "GLFW_RELEASE" -> "Released"])

(***************************************************************************)
(* The native library.  n is the library's state of one window:            *)
(*   monitor       glfwGetWindowMonitor (NULL when windowed)                *)
(*   pos, size     the window's geometry                                    *)
(*   windowed_pos, windowed_size   its geometry when it was last windowed   *)
(*   scale         its content scale [x, y]                                 *)
(*   visible       FALSE once hidden                                        *)
(*   cursor_mode, raw_motion, limits   input modes and size limits          *)
(* A handle state h = [w, n, q, log, panic] carries the GlfwWindow w, the   *)
(* native state n, the pending events q, the native calls made so far and   *)
(* whether the process has panicked.                                        *)
(***************************************************************************)
\* The window takes a new geometry; the position and size callbacks fire for
\* what changed (a size change also changes the framebuffer size).
moved(q, n, pos) == IF pos # n.pos THEN windowpos(q, pos.x, pos.y) ELSE q

resized(q, n, size) ==
    IF size # n.size
    THEN framebuffersize(windowsize(q, size.x, size.y),
                         size.x * n.scale.x, size.y * n.scale.y)
    ELSE q

geometry(h, monitor, pos, size) ==
    [h EXCEPT !.n.monitor = monitor,
              !.n.pos = pos,
              !.n.size = size,
              !.n.windowed_pos = IF monitor = NULL THEN pos ELSE @,
              !.n.windowed_size = IF monitor = NULL THEN size ELSE @,
              !.q = resized(moved(h.q, h.n, pos), h.n, size)]

\* On Wayland a window's position is always the origin.
native_pos(pos) == IF platform = "wayland" THEN IVec2(0, 0) ELSE pos

native_geometry(h, monitor, pos, size) == geometry(h, monitor, native_pos(pos), size)

called(h, call) == [h EXCEPT !.log = Append(@, call)]

glfwSetWindowMonitor(h, monitor, xpos, ypos, width, height) ==
    called(native_geometry(h, monitor,
                           IF monitor = NULL THEN IVec2(xpos, ypos)
                           ELSE IVec2(monitors[monitor].x, monitors[monitor].y),
                           UVec2(width, height)),
           [fn |-> "glfwSetWindowMonitor", monitor |-> monitor,
            xpos |-> xpos, ypos |-> ypos, width |-> width, height |-> height])

\* A full screen window has no position of its own.
glfwSetWindowPos(h, xpos, ypos) ==
    called(IF h.n.monitor = NULL
           THEN native_geometry(h, NULL, IVec2(xpos, ypos), h.n.size)
           ELSE h,
           [fn |-> "glfwSetWindowPos", xpos |-> xpos, ypos |-> ypos])

glfwSetWindowSize(h, width, height) ==
    called(native_geometry(h, h.n.monitor, h.n.pos, UVec2(width, height)),
           [fn |-> "glfwSetWindowSize", width |-> width, height |-> height])

glfwHideWindow(h) ==
    called([h EXCEPT !.n.visible = FALSE], [fn |-> "glfwHideWindow"])

glfwSetWindowSizeLimits(h, minwidth, minheight, maxwidth, maxheight) ==
    LET limits == [minwidth |-> minwidth, minheight |-> minheight,
                   maxwidth |-> maxwidth, maxheight |-> maxheight]
    IN  called([h EXCEPT !.n.limits = limits],
               [fn |-> "glfwSetWindowSizeLimits", limits |-> limits])

glfwSetInputMode(h, mode, value) ==
    called(IF mode = "GLFW_CURSOR" THEN [h EXCEPT !.n.cursor_mode = value]
           ELSE [h EXCEPT !.n.raw_motion = value],
           [fn |-> "glfwSetInputMode", mode |-> mode, value |-> value])

(***************************************************************************)
(* GlfwWindow methods.                                                     *)
(***************************************************************************)
\* Mutant: every switch to a full screen mode takes the snapshot again.
snapshot_on_every_switch(h, currently_windowed, set_windowed) ==
    IF ~set_windowed
    THEN [h EXCEPT !.w.pre_fullscreen_pos = h.w.pos,
                   !.w.pre_fullscreen_size = h.w.size]
    ELSE h

\* The snapshot taken by set_window_mode on (currently_windowed, set_windowed).
snapshot(h, currently_windowed, set_windowed) ==
    IF currently_windowed /\ ~set_windowed
    THEN [h EXCEPT !.w.pre_fullscreen_pos = h.w.pos,
                   !.w.pre_fullscreen_size = h.w.size]
    ELSE h

set_monitor_requested_resolution(h, mode, resolution, target_monitor) ==
    CASE mode = "Windowed" ->
           glfwSetWindowMonitor(h, NULL,
                                h.w.pre_fullscreen_pos.x, h.w.pre_fullscreen_pos.y,
                                h.w.pre_fullscreen_size.x, h.w.pre_fullscreen_size.y)
      [] OTHER ->
           glfwSetWindowMonitor(h, target_monitor, 0, 0, resolution.x, resolution.y)

\* The native call of set_window_mode for the target mode.
set_monitor(h, mode, resolution, target_monitor) ==
    CASE mode = "Windowed" ->
           glfwSetWindowMonitor(h, NULL,
                                h.w.pre_fullscreen_pos.x, h.w.pre_fullscreen_pos.y,
                                h.w.pre_fullscreen_size.x, h.w.pre_fullscreen_size.y)
      [] mode = "SizedFullscreen" ->
           glfwSetWindowMonitor(h, target_monitor, 0, 0, resolution.x, resolution.y)
      [] OTHER -> \* BorderlessFullscreen | Fullscreen
           glfwSetWindowMonitor(h, target_monitor, 0, 0,
                                monitors[target_monitor].width,
                                monitors[target_monitor].height)

\* let target_monitor = self.current_monitor(); match mode { .. }
\* monitors() asserts that there is a monitor.
apply_mode(h, mode, resolution) ==
    IF Len(monitors) = 0 THEN [h EXCEPT !.panic = TRUE]
    ELSE set_monitor(h, mode, resolution, current_monitor(h.w))

\* Mutant: no early return when a windowed window is set to Windowed.
set_window_mode_without_return(h, mode, resolution) ==
    apply_mode(snapshot(h, h.n.monitor = NULL, mode = "Windowed"), mode, resolution)

set_window_mode(h, mode, resolution) ==
    LET set_windowed == mode = "Windowed"
        currently_windowed == h.n.monitor = NULL
    IN  IF currently_windowed /\ set_windowed THEN h
        ELSE apply_mode(snapshot(h, currently_windowed, set_windowed), mode, resolution)

\* Mutant: the cached position waits for the window-position callback.
set_pos_awaiting_callback(h, pos) == glfwSetWindowPos(h, pos.x, pos.y)

set_pos(h, pos) == glfwSetWindowPos([h EXCEPT !.w.pos = pos], pos.x, pos.y)

set_size(h, size) == glfwSetWindowSize([h EXCEPT !.w.size = size], size.x, size.y)

\* monitors()[0], monitors().get(idx): a selection is [sel, idx] with sel one
\* of "Current", "Primary", "Number"; idx is the source's 0-based index.
center_to_panics(monitor_selection) ==
    \/ Len(monitors) = 0
    \/ monitor_selection.sel = "Number" /\ monitor_selection.idx >= Len(monitors)

\* Mutant: the primary monitor is taken from the end of the enumeration.
select_monitor_primary_last(h, monitor_selection) ==
    CASE monitor_selection.sel = "Current" -> current_monitor(h.w)
      [] monitor_selection.sel = "Primary" -> Len(monitors)
      [] OTHER -> monitor_selection.idx + 1

\* The match on the MonitorSelection.
select_monitor(h, monitor_selection) ==
    CASE monitor_selection.sel = "Current" -> current_monitor(h.w)
      [] monitor_selection.sel = "Primary" -> 1
      [] OTHER -> monitor_selection.idx + 1

\* Mutant: the difference of the sizes is halved.
centered_halving_difference(h, monitor) ==
    IVec2(monitors[monitor].x + (monitors[monitor].width - h.w.size.x) \div 2,
          monitors[monitor].y + (monitors[monitor].height - h.w.size.y) \div 2)

\* The position that centers the window on the monitor.
centered(h, monitor) ==
    LET monitor_middle_x == monitors[monitor].x + monitors[monitor].width \div 2
        monitor_middle_y == monitors[monitor].y + monitors[monitor].height \div 2
    IN  IVec2(monitor_middle_x - h.w.size.x \div 2,
              monitor_middle_y - h.w.size.y \div 2)

center_to(h, monitor_selection) ==
    IF center_to_panics(monitor_selection) THEN [h EXCEPT !.panic = TRUE]
    ELSE set_pos(h, centered(h, select_monitor(h, monitor_selection)))

set_resize_constraints(h, constraints) ==
    glfwSetWindowSizeLimits(h,
                            conv(constraints.min_width),
                            conv(constraints.min_height),
                            conv(constraints.max_width),
                            conv(constraints.max_height))

\* The second half of update_cursor_mode.
update_raw_motion(h) ==
    IF raw_motion_supported
    THEN glfwSetInputMode(h, "GLFW_RAW_MOUSE_MOTION", h.w.cursor_locked)
    ELSE h

\* Mutant: a hidden cursor stays hidden when it is locked.
update_cursor_mode_hidden_first(h) ==
    update_raw_motion(
        glfwSetInputMode(h, "GLFW_CURSOR",
                         IF ~h.w.cursor_visible THEN "GLFW_CURSOR_HIDDEN"
                         ELSE IF h.w.cursor_locked THEN "GLFW_CURSOR_DISABLED"
                         ELSE "GLFW_CURSOR_NORMAL"))

update_cursor_mode(h) ==
    update_raw_motion(
        glfwSetInputMode(h, "GLFW_CURSOR",
                         IF h.w.cursor_locked THEN "GLFW_CURSOR_DISABLED"
                         ELSE IF h.w.cursor_visible THEN "GLFW_CURSOR_NORMAL"
                         ELSE "GLFW_CURSOR_HIDDEN"))

(***************************************************************************)
(* The drain: GlfwWindow::handle_events.  A drain state d = [w, b, out,     *)
(* send_size] carries the GlfwWindow, the application's Window, the events  *)
(* sent so far and the send_size flag.                                      *)
(***************************************************************************)
send(d, event) == [d EXCEPT !.out = Append(@, event)]

\* Mutant: the scale change rescales the cached logical size.
on_window_content_scale_rescaling(d, id, event) ==
    [send(send([d EXCEPT !.w.scale_factor = event.scale_factor,
                         !.w.size = UVec2(d.w.size.x * event.scale_factor,
                                          d.w.size.y * event.scale_factor),
                         !.b.backend_scale_factor = event.scale_factor],
               [type |-> "WindowScaleFactorChanged", id |-> id,
                scale_factor |-> event.scale_factor]),
          [type |-> "WindowBackendScaleFactorChanged", id |-> id,
           scale_factor |-> event.scale_factor])
     EXCEPT !.send_size = TRUE]

\* The arm GlfwEvent::WindowContentScale.
on_window_content_scale(d, id, event) ==
    [send(send([d EXCEPT !.w.scale_factor = event.scale_factor,
                         !.b.backend_scale_factor = event.scale_factor],
               [type |-> "WindowScaleFactorChanged", id |-> id,
                scale_factor |-> event.scale_factor]),
          [type |-> "WindowBackendScaleFactorChanged", id |-> id,
           scale_factor |-> event.scale_factor])
     EXCEPT !.send_size = TRUE]

\* Mutant: one resize event per raw size callback.
on_window_size_sending(d, id, event) ==
    send([d EXCEPT !.w.size = event.size, !.send_size = TRUE],
         [type |-> "WindowResized", id |-> id,
          width |-> event.size.x, height |-> event.size.y])

\* The arm GlfwEvent::WindowSize.
on_window_size(d, id, event) ==
    [d EXCEPT !.w.size = event.size, !.send_size = TRUE]

\* The arm GlfwEvent::FramebufferSize.
on_framebuffer_size(d, id, event) ==
    [d EXCEPT !.b.physical_size = event.size, !.send_size = TRUE]

\* Mutant: the position is left in the top-left origin space.
on_cursor_pos_top_left(d, id, event) ==
    send([d EXCEPT !.b.physical_cursor_position =
                      [x |-> event.pos.x * d.w.scale_factor,
                       y |-> event.pos.y * d.w.scale_factor]],
         [type |-> "CursorMoved", id |-> id, position |-> event.pos])

\* The arm GlfwEvent::CursorPos.
on_cursor_pos(d, id, event) ==
    LET pos == [x |-> event.pos.x, y |-> d.w.size.y - event.pos.y]
        physical == [x |-> pos.x * d.w.scale_factor,
                     y |-> pos.y * d.w.scale_factor]
    IN  send([d EXCEPT !.b.physical_cursor_position = physical],
             [type |-> "CursorMoved", id |-> id, position |-> pos])

\* One iteration of the loop over events.drain(..): the match on the record.
handle_event(d, id, event) ==
    CASE event.type = "WindowClose" ->
           send(d, [type |-> "WindowCloseRequested", id |-> id])
      [] event.type = "WindowFocused" ->
           send([d EXCEPT !.b.focused = event.focused],
                [type |-> "WindowFocused", id |-> id, focused |-> event.focused])
      [] event.type = "WindowContentScale" -> on_window_content_scale(d, id, event)
      [] event.type = "WindowPos" ->
           send([d EXCEPT !.b.position = event.position,
                          !.w.pos = event.position],
                [type |-> "WindowMoved", id |-> id, position |-> event.position])
      [] event.type = "WindowSize" -> on_window_size(d, id, event)
      [] event.type = "FramebufferSize" -> on_framebuffer_size(d, id, event)
      [] event.type = "Drop" ->
           send(d, [type |-> "FileDragAndDrop", id |-> event.id, path |-> event.path])
      [] event.type = "Scroll" ->
           send(d, [type |-> "MouseWheel", x |-> event.x, y |-> event.y])
      [] event.type = "CursorEnter" ->
           IF event.entered
           THEN send(d, [type |-> "CursorEntered", id |-> id])
           ELSE send([d EXCEPT !.b.physical_cursor_position = Nothing],
                     [type |-> "CursorLeft", id |-> id])
      [] event.type = "CursorPos" -> on_cursor_pos(d, id, event)
      [] event.type = "MouseButton" ->
           send(d, [type |-> "MouseButtonInput", button |-> event.button,
                    state |-> event.state])
      [] event.type = "Char" ->
           send(d, [type |-> "ReceivedCharacter", id |-> id, char |-> event.char])
      [] OTHER -> \* Key
           send(d, [type |-> "KeyboardInput", scan_code |-> event.scan_code,
                    key_code |-> event.key_code, state |-> event.state])

\* Mutant: the records are translated from the last to the first.
RECURSIVE drain_events_last_first(_, _, _)
drain_events_last_first(d, id, q) ==
    IF q = <<>> THEN d
    ELSE handle_event(drain_events_last_first(d, id, Tail(q)), id, Head(q))

RECURSIVE drain_events(_, _, _)
drain_events(d, id, q) ==
    IF q = <<>> THEN d
    ELSE drain_events(handle_event(d, id, Head(q)), id, Tail(q))

send_resized_first(d, id) ==
    IF d.send_size
    THEN [d EXCEPT !.out = <<[type |-> "WindowResized", id |-> id,
                              width |-> d.w.size.x, height |-> d.w.size.y]>> \o @]
    ELSE d

\* The tail of handle_events: the synthesized resize.
send_resized(d, id) ==
    IF d.send_size
    THEN send(d, [type |-> "WindowResized", id |-> id,
                  width |-> d.w.size.x, height |-> d.w.size.y])
    ELSE d

handle_events(w, b, id, q) ==
    send_resized(drain_events([w |-> w, b |-> b, out |-> <<>>, send_size |-> FALSE],
                              id, q),
                 id)

(***************************************************************************)
(* change_window: the commands of one window.                              *)
(***************************************************************************)
glfwCall(h, fn) == called(h, [fn |-> fn])

\* One arm of the match on the WindowCommand (Close is handled by the loop).
apply_command(h, command) ==
    CASE command.type = "SetWindowMode" ->
           set_window_mode(h, command.mode, command.resolution)
      [] command.type = "SetTitle" ->
           IF command.valid THEN glfwCall(h, "glfwSetWindowTitle")
           ELSE [h EXCEPT !.panic = TRUE]
      [] command.type = "SetScaleFactor" -> [h EXCEPT !.panic = TRUE]
      [] command.type = "SetResolution" ->
           set_size(h, UVec2(command.logical_resolution.x, command.logical_resolution.y))
      [] command.type = "SetPresentMode" -> h
      [] command.type = "SetResizable" -> glfwCall(h, "glfwSetWindowAttrib")
      [] command.type = "SetDecorations" -> glfwCall(h, "glfwSetWindowAttrib")
      [] command.type = "SetCursorLockMode" ->
           update_cursor_mode([h EXCEPT !.w.cursor_locked = command.locked])
      [] command.type = "SetCursorIcon" -> glfwCall(h, "glfwSetCursor")
      [] command.type = "SetCursorVisibility" ->
           update_cursor_mode([h EXCEPT !.w.cursor_visible = command.visible])
      [] command.type = "SetCursorPosition" ->
           called(h, [fn |-> "glfwSetCursorPos", xpos |-> command.position.x,
                      ypos |-> h.w.size.y - command.position.y])
      [] command.type = "SetMaximized" ->
           glfwCall(h, IF command.maximized THEN "glfwMaximizeWindow"
                       ELSE "glfwRestoreWindow")
      [] command.type = "SetMinimized" ->
           glfwCall(h, IF command.minimized THEN "glfwIconifyWindow"
                       ELSE "glfwRestoreWindow")
      [] command.type = "SetPosition" -> set_pos(h, command.position)
      [] command.type = "Center" -> center_to(h, command.monitor)
      [] OTHER -> \* SetResizeConstraints
           set_resize_constraints(h, command.resize_constraints)

\* Mutant: a batch that holds a Close only closes.
apply_commands_closing_first(h, commands) ==
    IF \E i \in DOMAIN commands : commands[i].type = "Close"
    THEN [h EXCEPT !.removed = TRUE]
    ELSE h

\* Mutant: the commands after a Close are applied as well.
RECURSIVE apply_commands_through_close(_, _)
apply_commands_through_close(h, commands) ==
    IF commands = <<>> \/ h.panic THEN h
    ELSE IF Head(commands).type = "Close"
         THEN apply_commands_through_close([h EXCEPT !.removed = TRUE], Tail(commands))
         ELSE apply_commands_through_close(apply_command(h, Head(commands)), Tail(commands))

\* Mutant: the commands are applied from the last to the first.
RECURSIVE apply_commands_last_first(_, _)
apply_commands_last_first(h, commands) ==
    IF commands = <<>> \/ h.panic THEN h
    ELSE IF Head(commands).type = "Close" THEN [h EXCEPT !.removed = TRUE]
    ELSE apply_command(apply_commands_last_first(h, Tail(commands)), Head(commands))

\* for command in bevy_window.drain_commands(): Close pushes the id onto
\* removed_windows and breaks; a panic ends the process.
RECURSIVE apply_commands(_, _)
apply_commands(h, commands) ==
    IF commands = <<>> \/ h.panic THEN h
    ELSE IF Head(commands).type = "Close" THEN [h EXCEPT !.removed = TRUE]
    ELSE apply_commands(apply_command(h, Head(commands)), Tail(commands))

\* The handle state of window id at the start of a step.
handle(id) ==
    [w |-> windows[id], n |-> native[id], q |-> events[id],
     log |-> <<>>, panic |-> FALSE, removed |-> FALSE]

\* Mutant: the window is hidden before it is set to Windowed.
close_native_hiding_first(h, remaining) ==
    IF remaining
    THEN set_window_mode(glfwHideWindow(h), "Windowed", UVec2(0, 0))
    ELSE h

\* What the close loop does with the removed GlfwWindow once its entry is
\* gone: remaining tells whether the registry still holds a window.
close_native(h, remaining) ==
    IF remaining
    THEN glfwHideWindow(set_window_mode(h, "Windowed", UVec2(0, 0)))
    ELSE h

\* Mutant: the removal leaves the application's window in place.
remove_window_from_registry(c, id, h) ==
    [windows |-> [i \in DOMAIN c.windows \ {id} |-> c.windows[i]],
     bevy_windows |-> c.bevy_windows,
     native |-> [c.native EXCEPT ![id] = h.n],
     events |-> [c.events EXCEPT ![id] = h.q],
     calls |-> [c.calls EXCEPT ![id] = h.log],
     sent |-> [c.sent EXCEPT ![id] = Append(@, [type |-> "WindowClosed", id |-> id])]]

\* Mutant: the removal clears the registry.
remove_window_clearing(c, id, h) ==
    [windows |-> [i \in {} |-> c.windows[i]],
     bevy_windows |-> [i \in DOMAIN c.bevy_windows \ {id} |-> c.bevy_windows[i]],
     native |-> [c.native EXCEPT ![id] = h.n],
     events |-> [c.events EXCEPT ![id] = h.q],
     calls |-> [c.calls EXCEPT ![id] = h.log],
     sent |-> [c.sent EXCEPT ![id] = Append(@, [type |-> "WindowClosed", id |-> id])]]

\* The removal of window id, h being the state of its handle afterwards.
remove_window(c, id, h) ==
    [windows |-> [i \in DOMAIN c.windows \ {id} |-> c.windows[i]],
     bevy_windows |-> [i \in DOMAIN c.bevy_windows \ {id} |-> c.bevy_windows[i]],
     native |-> [c.native EXCEPT ![id] = h.n],
     events |-> [c.events EXCEPT ![id] = h.q],
     calls |-> [c.calls EXCEPT ![id] = h.log],
     sent |-> [c.sent EXCEPT ![id] = Append(@, [type |-> "WindowClosed", id |-> id])]]

\* Mutant: the registry is tested as it was before the first close.
close_window_testing_at_start(c, id) ==
    IF id \notin DOMAIN c.bevy_windows THEN c
    ELSE remove_window(c, id,
                       close_native([w |-> c.windows[id], n |-> c.native[id],
                                     q |-> c.events[id], log |-> c.calls[id],
                                     panic |-> FALSE, removed |-> TRUE],
                                    DOMAIN windows # {id}))

\* One iteration of `for id in removed_windows`.  c = [windows, bevy_windows,
\* native, events, calls, sent].
close_window(c, id) ==
    IF id \notin DOMAIN c.bevy_windows THEN c
    ELSE remove_window(c, id,
                       close_native([w |-> c.windows[id], n |-> c.native[id],
                                     q |-> c.events[id], log |-> c.calls[id],
                                     panic |-> FALSE, removed |-> TRUE],
                                    DOMAIN c.windows # {id}))

RECURSIVE close_windows(_, _)
close_windows(c, removed_windows) ==
    IF removed_windows = <<>> THEN c
    ELSE close_windows(close_window(c, Head(removed_windows)), Tail(removed_windows))

\* The orders in which a HashMap may enumerate the ids of S.
Orders(S) ==
    {o \in [1..Cardinality(S) -> S] : \A i, j \in DOMAIN o : o[i] = o[j] => i = j}

NoEvents == [id \in WindowIds |-> <<>>]

Empty == [i \in {} |-> Nothing]

(***************************************************************************)
(* Window creation.  A request is [id, descriptor, env]: env is what the    *)
(* platform will answer for the new window, [pos, scale], and [size] when   *)
(* the platform gives the window another size than the one asked for.       *)
(***************************************************************************)
glfwCreateWindow(width, height, env) ==
    [monitor |-> NULL, pos |-> native_pos(env.pos),
     size |-> IF "size" \in DOMAIN env THEN env.size ELSE UVec2(width, height),
     windowed_pos |-> native_pos(env.pos),
     windowed_size |-> IF "size" \in DOMAIN env THEN env.size ELSE UVec2(width, height),
     scale |-> env.scale, visible |-> TRUE,
     cursor_mode |-> "GLFW_CURSOR_NORMAL", raw_motion |-> FALSE,
     limits |-> [minwidth |-> GLFW_DONT_CARE, minheight |-> GLFW_DONT_CARE,
                 maxwidth |-> GLFW_DONT_CARE, maxheight |-> GLFW_DONT_CARE]]

window_hints ==
    <<[fn |-> "glfwWindowHint", hint |-> "GLFW_CLIENT_API"],
      [fn |-> "glfwWindowHint", hint |-> "GLFW_RESIZABLE"],
      [fn |-> "glfwWindowHint", hint |-> "GLFW_DECORATED"],
      [fn |-> "glfwWindowHint", hint |-> "GLFW_TRANSPARENT_FRAMEBUFFER"]>>

\* The `match position` of GlfwWindow::new.
place(h, position) ==
    CASE position.kind = "Automatic" -> h
      [] position.kind = "Centered" -> center_to(h, position.monitor)
      [] OTHER -> set_pos(h, position.pos)

\* Mutant: the new GlfwWindow keeps the size the descriptor asks for.
read_back_as_requested(window_descriptor, n) ==
    [w |-> [pos |-> n.pos,
            size |-> UVec2(window_descriptor.width, window_descriptor.height),
            pre_fullscreen_pos |-> IVec2(0, 0),
            pre_fullscreen_size |-> UVec2(0, 0),
            scale_factor |-> n.scale.x,
            cursor_visible |-> window_descriptor.cursor_visible,
            cursor_locked |-> window_descriptor.cursor_locked],
     n |-> n, q |-> <<>>,
     log |-> Append(window_hints, [fn |-> "glfwCreateWindow",
                                   width |-> window_descriptor.width,
                                   height |-> window_descriptor.height]),
     panic |-> n.scale.x # n.scale.y, removed |-> FALSE]

\* GlfwWindow::new after glfwCreateWindow and CallbackMetadata::register: the
\* read-back of position, size and content scale into the new GlfwWindow.
read_back(window_descriptor, n) ==
    [w |-> [pos |-> n.pos,
            size |-> n.size,
            pre_fullscreen_pos |-> IVec2(0, 0),
            pre_fullscreen_size |-> UVec2(0, 0),
            scale_factor |-> n.scale.x,
            cursor_visible |-> window_descriptor.cursor_visible,
            cursor_locked |-> window_descriptor.cursor_locked],
     n |-> n, q |-> <<>>,
     log |-> Append(window_hints, [fn |-> "glfwCreateWindow",
                                   width |-> window_descriptor.width,
                                   height |-> window_descriptor.height]),
     panic |-> n.scale.x # n.scale.y, removed |-> FALSE]

\* The last three calls of GlfwWindow::new.
configure(h, window_descriptor) ==
    IF h.panic THEN h
    ELSE set_window_mode(
             update_cursor_mode(
                 set_resize_constraints(h, window_descriptor.resize_constraints)),
             window_descriptor.mode, h.w.size)

\* GlfwWindow::new once the native window exists.
initialize(h, window_descriptor) ==
    IF h.panic THEN [h EXCEPT !.w = Nothing]
    ELSE configure(place(h, window_descriptor.position), window_descriptor)

\* Mutant: a scale factor override is ignored.
new_ignoring_override(window_descriptor, env) ==
    IF ~window_descriptor.title_valid
    THEN [w |-> Nothing, n |-> Nothing, q |-> <<>>, log |-> window_hints,
          panic |-> TRUE, removed |-> FALSE]
    ELSE initialize(read_back(window_descriptor,
                              glfwCreateWindow(window_descriptor.width,
                                               window_descriptor.height, env)),
                    window_descriptor)

\* GlfwWindow::new: the handle state of the new window, or a panic.
new(window_descriptor, env) ==
    IF window_descriptor.scale_factor_override # Nothing \/ ~window_descriptor.title_valid
    THEN [w |-> Nothing, n |-> Nothing, q |-> <<>>, log |-> window_hints,
          panic |-> TRUE, removed |-> FALSE]
    ELSE initialize(read_back(window_descriptor,
                              glfwCreateWindow(window_descriptor.width,
                                               window_descriptor.height, env)),
                    window_descriptor)

\* Window::new as create_window calls it.
bevy_window_new(w) ==
    [command_queue |-> <<>>,
     position |-> w.pos,
     physical_size |-> w.size,
     backend_scale_factor |-> w.scale_factor,
     focused |-> TRUE,
     physical_cursor_position |-> Nothing]

grow(f, id, v) == [i \in DOMAIN f \cup {id} |-> IF i = id THEN v ELSE f[i]]

\* Mutant: no WindowCreated event is sent.
insert_window_unconfirmed(c, id, h) ==
    IF h.panic
    THEN [c EXCEPT !.panic = TRUE]
    ELSE [windows |-> grow(c.windows, id, h.w),
          bevy_windows |-> grow(c.bevy_windows, id, bevy_window_new(h.w)),
          native |-> grow(c.native, id, h.n),
          events |-> grow(c.events, id, h.q),
          calls |-> [c.calls EXCEPT ![id] = h.log],
          sent |-> c.sent,
          panic |-> FALSE]

\* create_window and the rest of the loop body, given the result h of
\* GlfwWindow::new.
insert_window(c, id, h) ==
    IF h.panic
    THEN [c EXCEPT !.panic = TRUE, !.calls[id] = h.log,
                   !.native = IF h.n = Nothing THEN @ ELSE grow(@, id, h.n),
                   !.events = IF h.n = Nothing THEN @ ELSE grow(@, id, h.q)]
    ELSE [windows |-> grow(c.windows, id, h.w),
          bevy_windows |-> grow(c.bevy_windows, id, bevy_window_new(h.w)),
          native |-> grow(c.native, id, h.n),
          events |-> grow(c.events, id, h.q),
          calls |-> [c.calls EXCEPT ![id] = h.log],
          sent |-> [c.sent EXCEPT ![id] = Append(@, [type |-> "WindowCreated", id |-> id])],
          panic |-> FALSE]

\* One iteration of the loop of handle_create_window_events: create_window,
\* WindowCreated, windows.add.  c = [windows, bevy_windows, native, events,
\* calls, sent, panic].
create_window(c, request) ==
    IF c.panic THEN c
    ELSE insert_window(c, request.id, new(request.descriptor, request.env))

RECURSIVE create_windows(_, _)
create_windows(c, requests) ==
    IF requests = <<>> THEN c
    ELSE create_windows(create_window(c, Head(requests)), Tail(requests))

(***************************************************************************)
(* glfw_runner.  pc is "poll" while glfwPollEvents runs its callbacks,      *)
(* "update" while app.update() runs the application's systems, "check"      *)
(* before the AppExit check, "create" before handle_create_window_events,   *)
(* "done" after glfwTerminate and "panicked" after a panic.                 *)
(***************************************************************************)
env_vars == <<platform, raw_motion_supported, monitors>>
app_vars == <<create_window_events, app_exit, terminated>>

\* Mutant: the callback writes to the events of every window.
Callback_of_every_window(id, q) ==
    /\ pc = "poll"
    /\ id \in DOMAIN events
    /\ Len(events[id]) < MaxQueue
    /\ events' = [i \in DOMAIN events |-> q]
    /\ sent' = NoEvents
    /\ calls' = NoEvents
    /\ UNCHANGED <<env_vars, app_vars, windows, bevy_windows, pc, ret>>

\* A callback pushes onto the window's events and does nothing else.
Callback(id, q) ==
    /\ pc = "poll"
    /\ id \in DOMAIN events
    /\ Len(events[id]) < MaxQueue
    /\ events' = [events EXCEPT ![id] = q]
    /\ sent' = NoEvents
    /\ calls' = NoEvents
    /\ UNCHANGED <<env_vars, app_vars, windows, bevy_windows, pc, ret>>

PollWindowClose(id) ==
    /\ Callback(id, windowclose(events[id]))
    /\ UNCHANGED native

PollWindowFocus(id, focused) ==
    /\ Callback(id, windowfocus(events[id], focused))
    /\ UNCHANGED native

\* The window's content scale changes.
PollWindowContentScale(id, xscale, yscale) ==
    /\ pc = "poll"
    /\ id \in DOMAIN events
    /\ Len(events[id]) < MaxQueue
    /\ native' = [native EXCEPT ![id].scale = [x |-> xscale, y |-> yscale]]
    /\ IF windowcontentscale_panics(xscale, yscale)
       THEN pc' = "panicked" /\ UNCHANGED events
       ELSE /\ events' = [events EXCEPT ![id] = windowcontentscale(@, xscale, yscale)]
            /\ UNCHANGED pc
    /\ sent' = NoEvents
    /\ calls' = NoEvents
    /\ UNCHANGED <<env_vars, app_vars, windows, bevy_windows, ret>>

\* The user moves a windowed window.
PollWindowPos(id, pos) ==
    /\ Callback(id, windowpos(events[id], pos.x, pos.y))
    /\ native[id].monitor = NULL
    /\ platform # "wayland"
    /\ native' = [native EXCEPT ![id].pos = pos, ![id].windowed_pos = pos]

\* The user resizes a windowed window.
PollWindowSize(id, size) ==
    /\ Callback(id, windowsize(events[id], size.x, size.y))
    /\ native[id].monitor = NULL
    /\ native' = [native EXCEPT ![id].size = size, ![id].windowed_size = size]

PollFramebufferSize(id, size) ==
    /\ Callback(id, framebuffersize(events[id], size.x, size.y))
    /\ UNCHANGED native

\* The user drops files onto the window.
PollDrop(id, paths) ==
    /\ Callback(id, drop_(events[id], id, paths))
    /\ UNCHANGED native

PollScroll(id, xoffset, yoffset) ==
    /\ Callback(id, scroll(events[id], xoffset, yoffset))
    /\ UNCHANGED native

PollCursorEnter(id, entered) ==
    /\ Callback(id, cursorenter(events[id], entered))
    /\ UNCHANGED native

PollCursorPos(id, pos) ==
    /\ Callback(id, cursorpos(events[id], pos.x, pos.y))
    /\ UNCHANGED native

PollMouseButton(id, button, action) ==
    /\ Callback(id, mousebutton(events[id], button, action))
    /\ UNCHANGED native

PollChar(id, codepoint) ==
    /\ Callback(id, char_(events[id], codepoint))
    /\ UNCHANGED native

PollKey(id, key_, scancode, action) ==
    /\ Callback(id, key(events[id], key_, scancode, action))
    /\ UNCHANGED native

\* The assignments of a step of the loop that ends in world c.
Becomes(c) ==
    /\ windows' = c.windows
    /\ bevy_windows' = c.bevy_windows
    /\ native' = c.native
    /\ events' = c.events
    /\ calls' = c.calls
    /\ sent' = c.sent

\* Mutant: the drain leaves the records in the windows' events.
drained_keeping_events(d) ==
    [windows |-> [id \in DOMAIN windows |-> d[id].w],
     bevy_windows |-> [id \in DOMAIN bevy_windows |->
                         IF id \in DOMAIN windows THEN d[id].b ELSE bevy_windows[id]],
     native |-> native,
     events |-> events,
     calls |-> NoEvents,
     sent |-> [id \in WindowIds |->
                 IF id \in DOMAIN windows THEN d[id].out ELSE <<>>]]

\* Mutant: a window whose close has been requested leaves the registry.
drained_closing_requested(d) ==
    [windows |-> [id \in {i \in DOMAIN windows :
                            \A a \in DOMAIN d[i].out :
                               d[i].out[a].type # "WindowCloseRequested"} |-> d[id].w],
     bevy_windows |-> [id \in DOMAIN bevy_windows |->
                         IF id \in DOMAIN windows THEN d[id].b ELSE bevy_windows[id]],
     native |-> native,
     events |-> [id \in DOMAIN events |->
                   IF id \in DOMAIN windows THEN <<>> ELSE events[id]],
     calls |-> NoEvents,
     sent |-> [id \in WindowIds |->
                 IF id \in DOMAIN windows THEN d[id].out ELSE <<>>]]

\* Mutant: the drain empties the events of the closed windows as well.
drained_discarding_closed(d) ==
    [windows |-> [id \in DOMAIN windows |-> d[id].w],
     bevy_windows |-> [id \in DOMAIN bevy_windows |->
                         IF id \in DOMAIN windows THEN d[id].b ELSE bevy_windows[id]],
     native |-> native,
     events |-> [id \in DOMAIN events |-> <<>>],
     calls |-> NoEvents,
     sent |-> [id \in WindowIds |->
                 IF id \in DOMAIN windows THEN d[id].out ELSE <<>>]]

\* The world after every window of the registry has drained its events into
\* d[id].
drained(d) ==
    [windows |-> [id \in DOMAIN windows |-> d[id].w],
     bevy_windows |-> [id \in DOMAIN bevy_windows |->
                         IF id \in DOMAIN windows THEN d[id].b ELSE bevy_windows[id]],
     native |-> native,
     events |-> [id \in DOMAIN events |->
                   IF id \in DOMAIN windows THEN <<>> ELSE events[id]],
     calls |-> NoEvents,
     sent |-> [id \in WindowIds |->
                 IF id \in DOMAIN windows THEN d[id].out ELSE <<>>]]

\* The drain phase of the loop: handle_events of every window of the registry.
HandleEvents ==
    /\ pc = "poll"
    /\ IF \E id \in DOMAIN windows : id \notin DOMAIN bevy_windows
       THEN /\ pc' = "panicked"
            /\ sent' = NoEvents
            /\ calls' = NoEvents
            /\ UNCHANGED <<windows, bevy_windows, native, events>>
       ELSE /\ Becomes(drained([id \in DOMAIN windows |->
                                  handle_events(windows[id], bevy_windows[id],
                                                id, events[id])]))
            /\ pc' = "update"
    /\ UNCHANGED <<env_vars, app_vars, ret>>

\* The application's systems, run by app.update() before change_window.
AppStep ==
    /\ pc = "update"
    /\ sent' = NoEvents
    /\ calls' = NoEvents
    /\ UNCHANGED <<env_vars, windows, native, events, terminated, pc, ret>>

AppCommand(id, command) ==
    /\ AppStep
    /\ id \in DOMAIN bevy_windows
    /\ Len(bevy_windows[id].command_queue) < MaxCommands
    /\ bevy_windows' = [bevy_windows EXCEPT ![id].command_queue = Append(@, command)]
    /\ UNCHANGED <<create_window_events, app_exit>>

AppCreateWindow(request) ==
    /\ AppStep
    /\ request.id \notin DOMAIN native
    /\ \A i \in DOMAIN create_window_events : create_window_events[i].id # request.id
    /\ create_window_events' = Append(create_window_events, request)
    /\ UNCHANGED <<bevy_windows, app_exit>>

AppExit ==
    /\ AppStep
    /\ ~app_exit
    /\ app_exit' = TRUE
    /\ UNCHANGED <<bevy_windows, create_window_events>>

\* The world after the first loop of change_window, applied[id] being the
\* handle state of window id after its commands.
commanded(applied) ==
    [windows |-> [id \in DOMAIN windows |->
                    IF id \in DOMAIN applied THEN applied[id].w ELSE windows[id]],
     bevy_windows |-> [id \in DOMAIN bevy_windows |->
                         [bevy_windows[id] EXCEPT !.command_queue = <<>>]],
     native |-> [id \in DOMAIN native |->
                   IF id \in DOMAIN applied THEN applied[id].n ELSE native[id]],
     events |-> [id \in DOMAIN events |->
                   IF id \in DOMAIN applied THEN applied[id].q ELSE events[id]],
     calls |-> [id \in WindowIds |->
                  IF id \in DOMAIN applied THEN applied[id].log ELSE <<>>],
     sent |-> NoEvents]

\* The second loop of change_window, over removed_windows in some order.
CloseRemoved(applied) ==
    IF \E id \in DOMAIN applied : applied[id].panic
    THEN Becomes(commanded(applied)) /\ pc' = "panicked"
    ELSE \E order \in Orders({id \in DOMAIN applied : applied[id].removed}) :
           /\ Becomes(close_windows(commanded(applied), order))
           /\ pc' = "check"

\* The system change_window, at the end of app.update().
ChangeWindow ==
    /\ pc = "update"
    /\ IF \E id \in DOMAIN bevy_windows : id \notin DOMAIN windows
       THEN /\ pc' = "panicked"
            /\ sent' = NoEvents
            /\ calls' = NoEvents
            /\ UNCHANGED <<windows, bevy_windows, native, events>>
       ELSE CloseRemoved([id \in DOMAIN bevy_windows |->
                           apply_commands(handle(id), bevy_windows[id].command_queue)])
    /\ UNCHANGED <<env_vars, app_vars, ret>>

ExitCheck_without_break ==
    /\ pc = "check"
    /\ pc' = "create"
    /\ sent' = NoEvents
    /\ calls' = NoEvents
    /\ UNCHANGED <<windows, bevy_windows, native, events, create_window_events,
                   terminated>>
    /\ UNCHANGED <<env_vars, app_exit, ret>>

\* The AppExit check of the loop; on exit, drop(app) and glfwTerminate().
ExitCheck ==
    /\ pc = "check"
    /\ IF app_exit
       THEN /\ pc' = "done"
            /\ windows' = Empty
            /\ bevy_windows' = Empty
            /\ native' = Empty
            /\ events' = Empty
            /\ create_window_events' = <<>>
            /\ terminated' = terminated + 1
       ELSE /\ pc' = "create"
            /\ UNCHANGED <<windows, bevy_windows, native, events,
                           create_window_events, terminated>>
    /\ sent' = NoEvents
    /\ calls' = NoEvents
    /\ UNCHANGED <<env_vars, app_exit, ret>>

NoWindows ==
    [windows |-> Empty, bevy_windows |-> Empty, native |-> Empty, events |-> Empty,
     calls |-> NoEvents, sent |-> NoEvents, panic |-> FALSE]

Created(c) ==
    /\ Becomes(c)
    /\ pc' = IF c.panic THEN "panicked" ELSE "poll"

\* handle_create_window_events, at the end of an iteration of the loop.
HandleCreateWindowEvents ==
    /\ pc = "create"
    /\ Created(create_windows([windows |-> windows, bevy_windows |-> bevy_windows,
                               native |-> native, events |-> events,
                               calls |-> NoEvents, sent |-> NoEvents,
                               panic |-> FALSE],
                              create_window_events))
    /\ create_window_events' = <<>>
    /\ UNCHANGED <<env_vars, app_exit, terminated, ret>>

\* The state in which glfw_runner starts in world c.
Starts(c) ==
    /\ windows = c.windows
    /\ bevy_windows = c.bevy_windows
    /\ native = c.native
    /\ events = c.events
    /\ calls = c.calls
    /\ sent = c.sent
    /\ pc = IF c.panic THEN "panicked" ELSE "poll"

\* GlfwPlugin::build: the state when glfw_runner starts, the window requested
\* so far having been created by handle_create_window_events.
Built(platforms, layouts, raw, requests) ==
    /\ platform \in platforms
    /\ raw_motion_supported \in raw
    /\ monitors \in layouts
    /\ \E request \in requests : Starts(create_windows(NoWindows, <<request>>))
    /\ create_window_events = <<>>
    /\ app_exit = FALSE
    /\ terminated = 0
    /\ ret = Nothing

(***************************************************************************)
(* Inputs.                                                                 *)
(***************************************************************************)
Platforms == {"x11", "wayland"}

TwoMonitors == <<Monitor(0, 0, 4, 3), Monitor(4, 0, 3, 3)>>

\* WindowResizeConstraints::default(): 180 x 120 up to infinity.
DefaultConstraints ==
    [min_width |-> F32("fin", 360), min_height |-> F32("fin", 240),
     max_width |-> F32("inf", 1), max_height |-> F32("inf", 1)]

\* WindowDescriptor::default(), with a small size.
DefaultDescriptor ==
    [width |-> 2, height |-> 2,
     position |-> [kind |-> "Automatic"],
     resize_constraints |-> DefaultConstraints,
     scale_factor_override |-> Nothing,
     title_valid |-> TRUE,
     cursor_visible |-> TRUE,
     cursor_locked |-> FALSE,
     mode |-> "Windowed"]

CreateWindow(id, descriptor, pos, scale) ==
    [id |-> id, descriptor |-> descriptor,
     env |-> [pos |-> pos, scale |-> [x |-> scale, y |-> scale]]]

DrawnPositions == {IVec2(1, 1), IVec2(5, 0)}
DrawnSizes == {UVec2(2, 2), UVec2(3, 1)}
DrawnScales == {1, 2}

(***************************************************************************)
(* SpecDrain: one window, the size, scale and position callbacks, and the   *)
(* loop draining them.                                                      *)
(***************************************************************************)
InitDrain ==
    Built({"x11"}, {TwoMonitors}, {TRUE},
          {CreateWindow(1, DefaultDescriptor, pos, 1) : pos \in DrawnPositions})

NextDrain ==
    \/ \E id \in WindowIds, s \in DrawnScales : PollWindowContentScale(id, s, s)
    \/ \E id \in WindowIds, pos \in DrawnPositions : PollWindowPos(id, pos)
    \/ \E id \in WindowIds, size \in DrawnSizes : PollWindowSize(id, size)
    \/ \E id \in WindowIds, size \in DrawnSizes : PollFramebufferSize(id, size)
    \/ HandleEvents
    \/ ChangeWindow
    \/ ExitCheck
    \/ HandleCreateWindowEvents

SpecDrain == InitDrain /\ [][NextDrain]_vars

(***************************************************************************)
(* SpecMode: one window, the user moving and resizing it, and the           *)
(* application switching its mode.                                          *)
(***************************************************************************)
Modes == {"Windowed", "SizedFullscreen", "BorderlessFullscreen", "Fullscreen"}

DrawnResolutions == {UVec2(2, 1), UVec2(4, 3)}

SetWindowMode(mode, resolution) ==
    [type |-> "SetWindowMode", mode |-> mode, resolution |-> resolution]

InitMode ==
    Built(Platforms, {TwoMonitors}, {TRUE},
          {CreateWindow(1, DefaultDescriptor, pos, 1) : pos \in DrawnPositions})

NextMode ==
    \/ \E id \in WindowIds, pos \in DrawnPositions : PollWindowPos(id, pos)
    \/ \E id \in WindowIds, size \in DrawnSizes : PollWindowSize(id, size)
    \/ HandleEvents
    \/ \E id \in WindowIds, mode \in Modes, resolution \in DrawnResolutions :
          AppCommand(id, SetWindowMode(mode, resolution))
    \/ ChangeWindow
    \/ ExitCheck
    \/ HandleCreateWindowEvents

SpecMode == InitMode /\ [][NextMode]_vars

(***************************************************************************)
(* SpecClose: windows being created, switched to full screen and closed,    *)
(* and the application exiting.                                             *)
(***************************************************************************)
FullscreenDescriptor == [DefaultDescriptor EXCEPT !.mode = "Fullscreen"]

\* The commands queued for all windows in this frame.
Queued ==
    UNION {{<<id, i>> : i \in DOMAIN bevy_windows[id].command_queue} :
             id \in DOMAIN bevy_windows}

InitClose ==
    Built({"x11"}, {TwoMonitors}, {TRUE},
          {CreateWindow(1, DefaultDescriptor, IVec2(1, 1), 1)})

NextClose ==
    \/ HandleEvents
    \/ \E id \in WindowIds, descriptor \in {DefaultDescriptor, FullscreenDescriptor} :
          AppCreateWindow(CreateWindow(id, descriptor, IVec2(5, 0), 1))
    \/ \E id \in WindowIds :
          /\ Cardinality(Queued) < MaxCommands
          /\ \/ AppCommand(id, [type |-> "Close"])
             \/ AppCommand(id, SetWindowMode("Fullscreen", UVec2(0, 0)))
             \/ AppCommand(id, SetWindowMode("Windowed", UVec2(0, 0)))
    \/ AppExit
    \/ ChangeWindow
    \/ ExitCheck
    \/ HandleCreateWindowEvents

SpecClose == InitClose /\ [][NextClose]_vars

(***************************************************************************)
(* SpecMonitor: a window created at a drawn place of a drawn monitor        *)
(* layout, and the monitor resolver applied to it.                          *)
(***************************************************************************)
\* Monitors side by side or overlapping, as tall as the largest window.
DrawnMonitors == {Monitor(x, 0, w, MaxCoord) : x \in 0..MaxCoord, w \in 1..MaxCoord}

DrawnLayouts == UNION {[1..n -> DrawnMonitors] : n \in 1..MaxMonitors}

DrawnWindows ==
    {CreateWindow(1, [DefaultDescriptor EXCEPT !.width = w, !.height = h],
                  IVec2(x, y), 1) :
        w \in 1..MaxCoord, h \in 1..MaxCoord, x \in -1..MaxCoord, y \in -1..0}

InitMonitor == Built(Platforms, DrawnLayouts, {TRUE}, DrawnWindows)

\* self.current_monitor() on window id.
CurrentMonitor(id) ==
    /\ id \in DOMAIN windows
    /\ ret' = [monitor |-> current_monitor(windows[id])]
    /\ UNCHANGED <<env_vars, app_vars, windows, native, events, bevy_windows,
                   sent, calls, terminated, pc>>

NextMonitor == \E id \in WindowIds : CurrentMonitor(id)

SpecMonitor == InitMonitor /\ [][NextMonitor]_vars

(***************************************************************************)
(* SpecConstraints: a window created with drawn resize constraints.         *)
(***************************************************************************)
DrawnDims ==
    {F32("fin", h) : h \in (-2 * MaxCoord)..(2 * MaxCoord)}
        \cup {F32("inf", 1), F32("inf", -1), F32("nan", 0), F32("sub", 1)}

DrawnConstraints ==
    [min_width : DrawnDims, min_height : DrawnDims,
     max_width : DrawnDims, max_height : DrawnDims]

\* GlfwPlugin::build before its call of handle_create_window_events.
InitConstraints ==
    /\ platform = "x11"
    /\ raw_motion_supported = TRUE
    /\ monitors = TwoMonitors
    /\ windows = Empty
    /\ bevy_windows = Empty
    /\ native = Empty
    /\ events = Empty
    /\ sent = NoEvents
    /\ calls = NoEvents
    /\ create_window_events \in
          {<<CreateWindow(1, [DefaultDescriptor EXCEPT !.resize_constraints = c],
                          IVec2(1, 1), 1)>> : c \in DrawnConstraints}
    /\ app_exit = FALSE
    /\ terminated = 0
    /\ pc = "create"
    /\ ret = Nothing

NextConstraints ==
    \/ HandleCreateWindowEvents
    \/ HandleEvents
    \/ ChangeWindow
    \/ ExitCheck

SpecConstraints == InitConstraints /\ [][NextConstraints]_vars

(***************************************************************************)
(* SpecScale: content scales with equal and with different components,      *)
(* reported for existing windows and for windows being created.             *)
(***************************************************************************)
\* <<xscale, yscale>>
DrawnScalePairs == {<<1, 1>>, <<2, 2>>, <<3, 2>>}

CreateWindowScaled(id, descriptor, pos, scale) ==
    [id |-> id, descriptor |-> descriptor,
     env |-> [pos |-> pos, scale |-> [x |-> scale[1], y |-> scale[2]]]]

InitScale ==
    Built({"x11"}, {TwoMonitors}, {TRUE},
          {CreateWindow(1, DefaultDescriptor, IVec2(1, 1), 1)})

NextScale ==
    \/ \E id \in WindowIds, scale \in DrawnScalePairs :
          PollWindowContentScale(id, scale[1], scale[2])
    \/ HandleEvents
    \/ \E id \in WindowIds, scale \in DrawnScalePairs :
          AppCreateWindow(CreateWindowScaled(id, DefaultDescriptor, IVec2(5, 0), scale))
    \/ ChangeWindow
    \/ ExitCheck
    \/ HandleCreateWindowEvents

SpecScale == InitScale /\ [][NextScale]_vars

(***************************************************************************)
(* SpecCommands: windows being created, moved, resized, maximized and       *)
(* closed by commands, a few commands per frame.                            *)
(***************************************************************************)
SetPosition(position) == [type |-> "SetPosition", position |-> position]

SetResolution(size) == [type |-> "SetResolution", logical_resolution |-> size]

SetMaximized(maximized) == [type |-> "SetMaximized", maximized |-> maximized]

DrawnCommands ==
    {SetPosition(IVec2(5, 0)), SetResolution(UVec2(3, 1)), SetMaximized(TRUE),
     [type |-> "Close"]}

InitCommands ==
    Built({"x11"}, {TwoMonitors}, {TRUE},
          {CreateWindow(1, DefaultDescriptor, IVec2(1, 1), 1)})

NextCommands ==
    \/ HandleEvents
    \/ \E id \in WindowIds : AppCreateWindow(CreateWindow(id, DefaultDescriptor, IVec2(5, 0), 1))
    \/ \E id \in WindowIds, command \in DrawnCommands :
          /\ Cardinality(Queued) < MaxCommands
          /\ AppCommand(id, command)
    \/ ChangeWindow
    \/ ExitCheck
    \/ HandleCreateWindowEvents

SpecCommands == InitCommands /\ [][NextCommands]_vars

(***************************************************************************)
(* SpecCallbacks: two windows and every callback from windowclose to        *)
(* cursorpos, a few records pending per frame.                              *)
(***************************************************************************)
File(path) == [utf8 |-> TRUE, path |-> path]

NotUnicode == [utf8 |-> FALSE, path |-> ""]

DrawnDrops == {<<File("a"), File("b")>>, <<NotUnicode, File("a")>>, <<NotUnicode>>}

\* The records pending for all windows.
Pending ==
    UNION {{<<id, i>> : i \in DOMAIN events[id]} : id \in DOMAIN events}

InitCallbacks ==
    Built({"x11"}, {TwoMonitors}, {TRUE},
          {CreateWindow(1, DefaultDescriptor, IVec2(1, 1), 1)})

PollCallbacks(id) ==
    \/ PollWindowClose(id)
    \/ PollWindowFocus(id, TRUE)
    \/ \E scale \in {<<1, 1>>, <<3, 2>>} : PollWindowContentScale(id, scale[1], scale[2])
    \/ PollWindowPos(id, IVec2(5, 0))
    \/ PollWindowSize(id, UVec2(2, 2))
    \/ PollFramebufferSize(id, UVec2(2, 2))
    \/ \E paths \in DrawnDrops : PollDrop(id, paths)
    \/ PollScroll(id, 0, 1)
    \/ \E entered \in BOOLEAN : PollCursorEnter(id, entered)
    \/ PollCursorPos(id, IVec2(1, 1))

NextCallbacks ==
    \/ \E id \in WindowIds :
          /\ Cardinality(Pending) < MaxQueue
          /\ PollCallbacks(id)
    \/ HandleEvents
    \/ \E id \in WindowIds : AppCreateWindow(CreateWindow(id, DefaultDescriptor, IVec2(5, 0), 1))
    \/ ChangeWindow
    \/ ExitCheck
    \/ HandleCreateWindowEvents

SpecCallbacks == InitCallbacks /\ [][NextCallbacks]_vars

(***************************************************************************)
(* SpecInput: one window, every callback that CallbackMetadata::register    *)
(* registers, and the loop draining the records.                            *)
(***************************************************************************)
PollInput(id) ==
    \/ PollCallbacks(id)
    \/ \E button \in {0, 3}, action \in {"GLFW_PRESS", "GLFW_RELEASE"} :
          PollMouseButton(id, button, action)
    \* 'a', a surrogate and a value above the last code point
    \/ \E codepoint \in {97, 55296, 1114112} : PollChar(id, codepoint)
    \* a key with a KeyCode and two without
    \/ \E key_ \in {"GLFW_KEY_A", "GLFW_KEY_MENU", "GLFW_KEY_UNKNOWN"}, action \in {"GLFW_PRESS", "GLFW_REPEAT", "GLFW_RELEASE"} :
          PollKey(id, key_, 38, action)

NextInput ==
    \/ \E id \in WindowIds : PollInput(id)
    \/ HandleEvents
    \/ ChangeWindow
    \/ ExitCheck
    \/ HandleCreateWindowEvents

SpecInput == InitCallbacks /\ [][NextInput]_vars

(***************************************************************************)
(* SpecCursor: one window, its size, scale and cursor position callbacks,   *)
(* and the application locking and hiding the cursor.                       *)
(***************************************************************************)
InitCursor ==
    Built({"x11"}, {TwoMonitors}, BOOLEAN,
          {CreateWindow(1, [DefaultDescriptor EXCEPT !.cursor_visible = visible,
                                                     !.cursor_locked = locked],
                        IVec2(1, 1), 1) : visible \in BOOLEAN, locked \in BOOLEAN})

NextCursor ==
    \/ \E id \in WindowIds, s \in DrawnScales : PollWindowContentScale(id, s, s)
    \/ \E id \in WindowIds, size \in DrawnSizes : PollWindowSize(id, size)
    \/ \E id \in WindowIds, pos \in {IVec2(1, 1), IVec2(0, 2)} : PollCursorPos(id, pos)
    \/ HandleEvents
    \/ \E id \in WindowIds, locked \in BOOLEAN :
          AppCommand(id, [type |-> "SetCursorLockMode", locked |-> locked])
    \/ \E id \in WindowIds, visible \in BOOLEAN :
          AppCommand(id, [type |-> "SetCursorVisibility", visible |-> visible])
    \/ ChangeWindow
    \/ ExitCheck
    \/ HandleCreateWindowEvents

SpecCursor == InitCursor /\ [][NextCursor]_vars

(***************************************************************************)
(* SpecPlacement: windows created and centered on selected monitors, with   *)
(* and without a scale factor override, on layouts of two and of no         *)
(* monitors.                                                                *)
(***************************************************************************)
Selection(sel, idx) == [sel |-> sel, idx |-> idx]

\* Current, Primary, the two monitors by index and an index out of range.
DrawnSelections ==
    {Selection("Current", 0), Selection("Primary", 0)}
        \cup {Selection("Number", idx) : idx \in 0..2}

\* Descriptors of a w x h window: placed by the window manager, centered,
\* full screen, and with a scale factor override.
DrawnDescriptors(w, h) ==
    {[DefaultDescriptor EXCEPT !.width = w, !.height = h],
     [DefaultDescriptor EXCEPT !.width = w, !.height = h, !.mode = "Fullscreen"],
     [DefaultDescriptor EXCEPT !.width = w, !.height = h,
                               !.scale_factor_override = Some(2)]}
        \cup {[DefaultDescriptor EXCEPT !.width = w, !.height = h,
                                       !.position = [kind |-> "Centered", monitor |-> m]] :
                 m \in {Selection("Primary", 0), Selection("Number", 2)}}

\* Two monitors, also with odd sizes and a negative origin, or none.
InitPlacement ==
    Built(Platforms,
          {TwoMonitors, <<Monitor(0, 0, 4, 3), Monitor(-3, -1, 3, 5)>>, <<>>},
          {TRUE},
          {CreateWindow(1, descriptor, IVec2(1, 1), 1) :
              descriptor \in DrawnDescriptors(3, 1)})

NextPlacement ==
    \/ HandleEvents
    \* a second window, requested with an override or centered out of range
    \/ \E id \in WindowIds, descriptor \in DrawnDescriptors(2, 2) :
          /\ descriptor.scale_factor_override # Nothing
                \/ descriptor.position = [kind |-> "Centered",
                                          monitor |-> Selection("Number", 2)]
          /\ AppCreateWindow(CreateWindow(id, descriptor, IVec2(5, 0), 1))
    \/ \E id \in WindowIds, m \in DrawnSelections :
          AppCommand(id, [type |-> "Center", monitor |-> m])
    \/ \E id \in WindowIds :
          AppCommand(id, [type |-> "SetScaleFactor", scale_factor |-> 2])
    \/ ChangeWindow
    \/ ExitCheck
    \/ HandleCreateWindowEvents

SpecPlacement == InitPlacement /\ [][NextPlacement]_vars

(***************************************************************************)
(* SpecCreate: windows created with an automatic, an explicit or a centered *)
(* position, windowed or full screen, on a platform that places them and    *)
(* may give them another size than the one asked for.                       *)
(***************************************************************************)
NextCreate ==
    \/ HandleEvents
    \/ \E id \in WindowIds,
          position \in {[kind |-> "Automatic"],
                        [kind |-> "At", pos |-> IVec2(2, 1)],
                        [kind |-> "Centered", monitor |-> Selection("Primary", 0)]},
          mode \in {"Windowed", "Fullscreen"} :
          \/ AppCreateWindow(CreateWindow(id, [DefaultDescriptor EXCEPT
                                                  !.position = position, !.mode = mode],
                                          IVec2(5, 0), 2))
          \/ AppCreateWindow([CreateWindow(id, [DefaultDescriptor EXCEPT
                                                   !.position = position, !.mode = mode],
                                           IVec2(5, 0), 2)
                                 EXCEPT !.env = [pos |-> IVec2(5, 0),
                                                 scale |-> [x |-> 2, y |-> 2],
                                                 size |-> UVec2(3, 1)]])
    \/ ChangeWindow
    \/ ExitCheck
    \/ HandleCreateWindowEvents

SpecCreate == InitMode /\ [][NextCreate]_vars

(***************************************************************************)
(* SpecLifecycle: windows created, asked to close by the user and closed by *)
(* the application, the closed windows still receiving callbacks.           *)
(***************************************************************************)
NextLifecycle ==
    \/ \E id \in WindowIds :
          /\ Cardinality(Pending) < MaxQueue
          /\ \/ PollWindowClose(id)
             \/ PollWindowPos(id, IVec2(5, 0))
    \/ HandleEvents
    \/ \E id \in WindowIds, descriptor \in {DefaultDescriptor, FullscreenDescriptor} :
          AppCreateWindow(CreateWindow(id, descriptor, IVec2(5, 0), 1))
    \/ \E id \in WindowIds :
          /\ Cardinality(Queued) < MaxCommands
          /\ AppCommand(id, [type |-> "Close"])
    \/ ChangeWindow
    \/ ExitCheck
    \/ HandleCreateWindowEvents

SpecLifecycle == InitClose /\ [][NextLifecycle]_vars

(***************************************************************************)
(* SpecBatch: one window and batches of commands that set its position or   *)
(* size and then use them: center, set-mode, set-cursor-position.           *)
(***************************************************************************)
NextBatch ==
    \/ HandleEvents
    \/ \E id \in WindowIds,
          command \in {SetPosition(IVec2(5, 0)), SetResolution(UVec2(3, 1)),
                       [type |-> "Center", monitor |-> Selection("Primary", 0)],
                       SetWindowMode("Fullscreen", UVec2(0, 0)),
                       [type |-> "SetCursorPosition", position |-> IVec2(1, 1)]} :
          /\ Cardinality(Queued) < MaxCommands
          /\ AppCommand(id, command)
    \/ ChangeWindow
    \/ ExitCheck
    \/ HandleCreateWindowEvents

SpecBatch == InitCommands /\ [][NextBatch]_vars

(***************************************************************************)
(* Properties of the drain.                                                *)
(***************************************************************************)
\* The step of the loop that drains the windows.
Drains == pc = "poll" /\ pc' = "update"

Count(log, type) == Cardinality({i \in DOMAIN log : log[i].type = type})

\* The records of q that are window-size, framebuffer-size or content-scale.
SizeAffecting(q) ==
    {i \in DOMAIN q : q[i].type \in {"WindowSize", "FramebufferSize", "WindowContentScale"}}

\* The window-resized events for window id among the events sent.
ResizedFor(out, id) ==
    {p \in UNION {{<<w, i>> : i \in DOMAIN out[w]} : w \in WindowIds} :
        /\ out[p[1]][p[2]].type = "WindowResized"
        /\ out[p[1]][p[2]].id = id}

\* C1: a drain of a window that drains at least one window-size,
\* framebuffer-size or content-scale record sends exactly one WindowResized
\* event for that window, however many such records there were.
C1_OneResizePerDrain ==
    [][Drains =>
         \A id \in DOMAIN windows :
            SizeAffecting(events[id]) # {} => Cardinality(ResizedFor(sent', id)) = 1]_vars

\* A drain of two content-scale records has sent one WindowResized event.
C1_Witness ==
    /\ pc = "update"
    /\ Count(sent[1], "WindowScaleFactorChanged") >= 2
    /\ Count(sent[1], "WindowResized") = 1

IsScaleOrResize(e) == e.type \in {"WindowScaleFactorChanged", "WindowResized"}

\* C10: the drain of a window whose only pending record is a content-scale
\* record with scale s sends one WindowScaleFactorChanged event carrying s and
\* then one WindowResized event carrying the cached logical size, which the
\* drain leaves as it was.
C10_ScaleThenResize ==
    [][Drains =>
         \A id \in DOMAIN windows :
            (Len(events[id]) = 1 /\ events[id][1].type = "WindowContentScale") =>
               /\ SelectSeq(sent'[id], IsScaleOrResize) =
                    <<[type |-> "WindowScaleFactorChanged", id |-> id,
                       scale_factor |-> events[id][1].scale_factor],
                      [type |-> "WindowResized", id |-> id,
                       width |-> windows[id].size.x, height |-> windows[id].size.y]>>
               /\ windows'[id].size = windows[id].size]_vars

\* A drain of one content-scale record of scale 2 has sent the scale change
\* and then the resize with the cached size.
C10_Witness ==
    /\ pc = "update"
    /\ windows[1].scale_factor = 2
    /\ sent[1] = <<[type |-> "WindowScaleFactorChanged", id |-> 1, scale_factor |-> 2],
                   [type |-> "WindowBackendScaleFactorChanged", id |-> 1, scale_factor |-> 2],
                   [type |-> "WindowResized", id |-> 1,
                    width |-> windows[1].size.x, height |-> windows[1].size.y]>>

(***************************************************************************)
(* Properties of set_window_mode.                                          *)
(***************************************************************************)
\* The step of the loop that runs change_window.
Changes == pc = "update" /\ pc' = "check"

NonWindowed == Modes \ {"Windowed"}

\* Every command of q is a set-mode to a mode of S.
OnlyModes(q, S) ==
    \A i \in DOMAIN q : q[i].type = "SetWindowMode" /\ q[i].mode \in S

\* q is set-mode commands: non-windowed modes, then Windowed.
EndsWindowed(q) ==
    /\ q # <<>>
    /\ OnlyModes(SubSeq(q, 1, Len(q) - 1), NonWindowed)
    /\ OnlyModes(<<q[Len(q)]>>, {"Windowed"})

SameSnapshot(w1, w2) ==
    /\ w1.pre_fullscreen_pos = w2.pre_fullscreen_pos
    /\ w1.pre_fullscreen_size = w2.pre_fullscreen_size

\* C2: the round trip of set_mode.  Leaving Windowed snapshots the cached
\* position P and size S; further switches among the non-windowed modes, and
\* every step that is not change_window, leave the snapshot as it is; and
\* set-mode(Windowed) puts the native window at exactly the snapshot, so a
\* batch that leaves Windowed, switches and returns restores P and S.
C2_RoundTrip ==
    [][\A id \in DOMAIN windows \cap DOMAIN windows' :
         LET q == bevy_windows[id].command_queue
             w == windows[id]
         IN  /\ ~Changes => SameSnapshot(windows'[id], w)
             /\ (Changes /\ native[id].monitor = NULL /\ q # <<>>
                 /\ OnlyModes(q, NonWindowed)) =>
                   /\ windows'[id].pre_fullscreen_pos = w.pos
                   /\ windows'[id].pre_fullscreen_size = w.size
             /\ (Changes /\ native[id].monitor # NULL /\ OnlyModes(q, NonWindowed)) =>
                   SameSnapshot(windows'[id], w)
             /\ (Changes /\ native[id].monitor # NULL /\ EndsWindowed(q)) =>
                   /\ native'[id].monitor = NULL
                   /\ native'[id].pos = w.pre_fullscreen_pos
                   /\ native'[id].size = w.pre_fullscreen_size
             /\ (Changes /\ native[id].monitor = NULL /\ Len(q) >= 2 /\ EndsWindowed(q)) =>
                   /\ native'[id].monitor = NULL
                   /\ native'[id].pos = w.pos
                   /\ native'[id].size = w.size]_vars

\* The window has been full screen for at least a drain and has just been set
\* back to Windowed, at the snapshot.
C2_Witness ==
    /\ pc = "check"
    /\ 1 \in DOMAIN windows
    /\ native[1].monitor = NULL
    /\ Len(calls[1]) = 1
    /\ calls[1][1].fn = "glfwSetWindowMonitor"
    /\ native[1].pos = windows[1].pre_fullscreen_pos
    /\ native[1].size = windows[1].pre_fullscreen_size
    /\ windows[1].pos # native[1].pos
    /\ windows[1].size # native[1].size

\* C3: with set-mode commands and polls only, every return to Windowed
\* restores the geometry the window had when it was last windowed.
C3_NoDrift ==
    [][\A id \in DOMAIN windows \cap DOMAIN windows' :
         (native[id].monitor # NULL /\ native'[id].monitor = NULL) =>
            /\ native'[id].pos = native[id].windowed_pos
            /\ native'[id].size = native[id].windowed_size]_vars

\* C4: set-mode(Windowed, any resolution) on a windowed window leaves the
\* cached position and size and the snapshot as they are and makes no native
\* call, so the monitor association stays as it is.
C4_WindowedIdempotent ==
    [][Changes =>
         \A id \in DOMAIN windows :
            (/\ native[id].monitor = NULL
             /\ bevy_windows[id].command_queue # <<>>
             /\ OnlyModes(bevy_windows[id].command_queue, {"Windowed"})) =>
               /\ windows'[id] = windows[id]
               /\ native'[id] = native[id]
               /\ events'[id] = events[id]
               /\ calls'[id] = <<>>]_vars

\* A windowed window that has been full screen before, so that its snapshot
\* is not its geometry, is about to be set to Windowed.
C4_Witness ==
    /\ pc = "update"
    /\ 1 \in DOMAIN windows
    /\ native[1].monitor = NULL
    /\ bevy_windows[1].command_queue # <<>>
    /\ OnlyModes(bevy_windows[1].command_queue, {"Windowed"})
    /\ windows[1].pre_fullscreen_size # UVec2(0, 0)
    /\ windows[1].pre_fullscreen_pos # windows[1].pos

(***************************************************************************)
(* Properties of closing.                                                  *)
(***************************************************************************)
Last(q) == q[Len(q)]

IsClose(command) == command.type = "Close"
IsSetWindowMode(command) == command.type = "SetWindowMode"

\* The windows whose queue holds a Close.
Closing ==
    {id \in DOMAIN bevy_windows :
        \E i \in DOMAIN bevy_windows[id].command_queue :
            IsClose(bevy_windows[id].command_queue[i])}

\* The index of the first Close of q, and the commands before it.
FirstClose(q) ==
    CHOOSE i \in DOMAIN q : IsClose(q[i]) /\ \A j \in 1..(i - 1) : ~IsClose(q[j])

BeforeClose(q) == SubSeq(q, 1, FirstClose(q) - 1)

\* Window id is full screen when its Close is reached.
FullscreenAtClose(id) ==
    LET modes == SelectSeq(BeforeClose(bevy_windows[id].command_queue), IsSetWindowMode)
    IN  IF modes = <<>> THEN native[id].monitor # NULL
        ELSE Last(modes).mode # "Windowed"

\* C7: a window closed while another window remains in the registry is set
\* to Windowed if it was full screen, then hidden, and its native handle is
\* not destroyed; the hide is the last native call made for it.
C7_WindowedThenHidden ==
    [][Changes =>
         \A id \in DOMAIN windows :
            (id \notin DOMAIN windows' /\ DOMAIN windows' # {}) =>
               /\ id \in DOMAIN native'
               /\ native'[id].monitor = NULL
               /\ ~native'[id].visible
               /\ calls'[id] # <<>>
               /\ Last(calls'[id]).fn = "glfwHideWindow"
               /\ \A i \in 1..(Len(calls'[id]) - 1) : calls'[id][i].fn # "glfwHideWindow"
               /\ FullscreenAtClose(id) =>
                    /\ Len(calls'[id]) >= 2
                    /\ calls'[id][Len(calls'[id]) - 1].fn = "glfwSetWindowMonitor"
                    /\ calls'[id][Len(calls'[id]) - 1].monitor = NULL]_vars

\* A full screen window has been closed while another remains: it has been
\* set to Windowed and then hidden.
C7_Witness ==
    /\ pc = "check"
    /\ DOMAIN windows # {}
    /\ \E id \in DOMAIN native \ DOMAIN windows :
          /\ Len(calls[id]) = 2
          /\ calls[id][1].fn = "glfwSetWindowMonitor"
          /\ calls[id][1].monitor = NULL
          /\ calls[id][2].fn = "glfwHideWindow"
          /\ ~native[id].visible

\* C8: when the last remaining window is closed, its native resources are
\* released by that step.
C8_LastWindowReleased ==
    [][(Changes /\ DOMAIN windows # {} /\ DOMAIN windows' = {}) =>
            \E id \in DOMAIN windows : id \notin DOMAIN native']_vars

\* The close-confirmation events for window id among the events sent.
ClosedFor(out, id) ==
    {p \in UNION {{<<w, i>> : i \in DOMAIN out[w]} : w \in WindowIds} :
        /\ out[p[1]][p[2]].type = "WindowClosed"
        /\ out[p[1]][p[2]].id = id}

\* C9: with two or more windows, closing window A alone sends exactly one
\* WindowClosed for A and removes only A's entry; every other window B stays,
\* no WindowResized is sent for B, and a B without commands of its own keeps
\* its cached state, its native state and its pending events.
C9_CloseLeavesOthers ==
    [][Changes =>
         \A A \in DOMAIN windows :
            (Closing = {A} /\ Cardinality(DOMAIN windows) >= 2) =>
               /\ Cardinality(ClosedFor(sent', A)) = 1
               /\ DOMAIN windows' = DOMAIN windows \ {A}
               /\ DOMAIN bevy_windows' = DOMAIN bevy_windows \ {A}
               /\ \A B \in DOMAIN windows \ {A} :
                     /\ ClosedFor(sent', B) = {}
                     /\ ResizedFor(sent', B) = {}
                     /\ bevy_windows[B].command_queue = <<>> =>
                          /\ windows'[B] = windows[B]
                          /\ native'[B] = native[B]
                          /\ events'[B] = events[B]]_vars

\* Window 1 has been closed while window 2 stays.
C9_Witness ==
    /\ pc = "check"
    /\ DOMAIN windows = {2}
    /\ DOMAIN bevy_windows = {2}
    /\ sent[1] = <<[type |-> "WindowClosed", id |-> 1]>>
    /\ sent[2] = <<>>

(***************************************************************************)
(* Properties of the monitor resolver.                                     *)
(***************************************************************************)
\* The area of the intersection of the window's and the monitor's rectangle.
Overlap(win, mon) ==
    LET w == Min(win.pos.x + win.size.x, mon.x + mon.width) - Max(win.pos.x, mon.x)
        h == Min(win.pos.y + win.size.y, mon.y + mon.height) - Max(win.pos.y, mon.y)
    IN  IF w > 0 /\ h > 0 THEN w * h ELSE 0

\* Monitor r has the largest overlap with the window and is the first such
\* monitor of the enumeration.
FirstMaximal(win, r) ==
    /\ r \in DOMAIN monitors
    /\ \A m \in DOMAIN monitors :
          /\ Overlap(win, monitors[m]) <= Overlap(win, monitors[r])
          /\ m < r => Overlap(win, monitors[m]) < Overlap(win, monitors[r])

\* C5, on every platform: current_monitor returns a monitor of maximal
\* overlap with the window, the one of lowest index among equals, and so the
\* primary monitor when no monitor overlaps the window.
C5_MaxOverlap ==
    ret # Nothing => FirstMaximal(windows[1], ret.monitor)

\* C5, as the source has it: on a platform other than Wayland
\* current_monitor returns a monitor of maximal overlap with the window, the
\* one of lowest index among equals, and so the primary monitor when no
\* monitor overlaps the window; on Wayland it returns the primary monitor
\* whatever the overlaps are.
C5_MaxOverlapOffWayland ==
    ret # Nothing =>
        IF platform = "wayland" THEN ret.monitor = 1
        ELSE FirstMaximal(windows[1], ret.monitor)

\* Off Wayland, two monitors overlap the window by the same positive area and
\* the primary one has been returned.
C5_Witness ==
    /\ ret # Nothing
    /\ platform = "x11"
    /\ Len(monitors) = 2
    /\ monitors[1] # monitors[2]
    /\ Overlap(windows[1], monitors[1]) = Overlap(windows[1], monitors[2])
    /\ Overlap(windows[1], monitors[1]) > 0
    /\ ret.monitor = 1

(***************************************************************************)
(* Properties of the resize constraints.                                   *)
(***************************************************************************)
\* What the limit passed for dimension dim has to be: the sentinel for a
\* dimension that is not finite or not positive, the value itself for a
\* positive whole number.
PassedAsStated(dim, limit) ==
    IF dim.k \in {"nan", "inf"} \/ dim.h <= 0
    THEN limit = GLFW_DONT_CARE
    ELSE (dim.k = "fin" /\ dim.h % 2 = 0) => limit = dim.h \div 2

SizeLimitsCalls(log) == SelectSeq(log, LAMBDA call : call.fn = "glfwSetWindowSizeLimits")

\* C6: each of the four dimensions of a resize constraint that is not finite
\* or not positive reaches the native library as GLFW_DONT_CARE, and each
\* finite positive dimension reaches it unchanged.
C6_SentinelOrUnchanged ==
    [][(pc = "create" /\ pc' = "poll") =>
         \A i \in DOMAIN create_window_events :
            LET request == create_window_events[i]
                passed == SizeLimitsCalls(calls'[request.id])
                stated == request.descriptor.resize_constraints
            IN  /\ Len(passed) = 1
                /\ PassedAsStated(stated.min_width, passed[1].limits.minwidth)
                /\ PassedAsStated(stated.min_height, passed[1].limits.minheight)
                /\ PassedAsStated(stated.max_width, passed[1].limits.maxwidth)
                /\ PassedAsStated(stated.max_height, passed[1].limits.maxheight)]_vars

(***************************************************************************)
(* Properties of the content scale.                                        *)
(***************************************************************************)
\* The scales drawn with equal components.
EqualScales == {scale[1] : scale \in {p \in DrawnScalePairs : p[1] = p[2]}}

\* The records or events of log that carry a scale factor carry one of S.
ScalesWithin(log, S) ==
    \A i \in DOMAIN log :
        log[i].type \in {"WindowContentScale", "WindowScaleFactorChanged",
                         "WindowBackendScaleFactorChanged"} =>
            log[i].scale_factor \in S

\* The first creation request whose content scale has different components.
Unequal(request) == request.env.scale.x # request.env.scale.y

\* C11: a content scale with different components is fatal.  Reported by the
\* callback, the process ends with nothing appended to the pending records
\* and nothing sent; reported for a window being created, the process ends
\* before the window is registered or confirmed; a process that has ended
\* takes no further step; so every cached scale factor, every pending
\* content-scale record and every scale event carries a scale that was
\* reported with equal components.
C11_UnequalScaleFatal ==
    [][/\ pc # "panicked"
       /\ \A id \in DOMAIN native \cap DOMAIN native' :
             (native'[id].scale # native[id].scale
              /\ native'[id].scale.x # native'[id].scale.y) =>
                /\ pc' = "panicked"
                /\ events' = events
                /\ windows' = windows
                /\ sent' = NoEvents
       /\ (pc = "create" /\ \E i \in DOMAIN create_window_events :
                               Unequal(create_window_events[i])) =>
             /\ pc' = "panicked"
             /\ \A i \in DOMAIN create_window_events :
                   Unequal(create_window_events[i]) =>
                      /\ create_window_events[i].id \notin DOMAIN windows'
                      /\ create_window_events[i].id \notin DOMAIN bevy_windows'
                      /\ sent'[create_window_events[i].id] = <<>>
       /\ \A id \in DOMAIN windows' : windows'[id].scale_factor \in EqualScales
       /\ \A id \in DOMAIN events' : ScalesWithin(events'[id], EqualScales)
       /\ \A id \in WindowIds : ScalesWithin(sent'[id], EqualScales)]_vars

\* The callback has reported a content scale with different components for a
\* registered window, and the process has ended.
C11_Witness ==
    /\ pc = "panicked"
    /\ \E id \in DOMAIN windows :
          /\ native[id].scale.x # native[id].scale.y
          /\ windows[id].scale_factor \in EqualScales
          /\ events[id] = <<>>

(***************************************************************************)
(* Properties of the command phase.                                        *)
(***************************************************************************)
\* The native call that one of the drawn commands makes.
NativeCallOf(command) ==
    CASE command.type = "SetPosition" ->
           [fn |-> "glfwSetWindowPos", xpos |-> command.position.x,
            ypos |-> command.position.y]
      [] command.type = "SetResolution" ->
           [fn |-> "glfwSetWindowSize", width |-> command.logical_resolution.x,
            height |-> command.logical_resolution.y]
      [] OTHER ->
           [fn |-> IF command.maximized THEN "glfwMaximizeWindow" ELSE "glfwRestoreWindow"]

NativeCallsOf(q) == [i \in DOMAIN q |-> NativeCallOf(q[i])]

HasClose(q) == \E i \in DOMAIN q : IsClose(q[i])

\* C12: change_window applies the queued commands of every window that stays
\* open to its native handle in the order they were queued, and leaves every
\* command queue empty, so that a later frame applies nothing again.
C12_InOrderThenCleared ==
    [][Changes =>
         /\ \A id \in DOMAIN windows :
               ~HasClose(bevy_windows[id].command_queue) =>
                  calls'[id] = NativeCallsOf(bevy_windows[id].command_queue)
         /\ \A id \in DOMAIN bevy_windows' :
               bevy_windows'[id].command_queue = <<>>]_vars

\* Two different commands of one window have been applied in their order.
C12_Witness ==
    /\ pc = "check"
    /\ \E id \in DOMAIN windows :
          /\ Len(calls[id]) = 2
          /\ calls[id][1].fn = "glfwSetWindowSize"
          /\ calls[id][2].fn = "glfwSetWindowPos"
          /\ bevy_windows[id].command_queue = <<>>

\* The commands of q other than Close.
NotClose(command) == ~IsClose(command)

OtherCommands(q) == SelectSeq(q, NotClose)

\* The native calls of log that a command made: those that are not the two
\* calls of the close loop.
ByCommand(call) == call.fn \notin {"glfwSetWindowMonitor", "glfwHideWindow"}

CommandCalls(log) == SelectSeq(log, ByCommand)

\* C13, for a Close at any place of the batch: every other command of the
\* batch is applied before the window is closed.
C13_CloseLast ==
    [][Changes =>
         \A id \in DOMAIN windows :
            HasClose(bevy_windows[id].command_queue) =>
               /\ id \notin DOMAIN windows'
               /\ CommandCalls(calls'[id]) =
                     NativeCallsOf(OtherCommands(bevy_windows[id].command_queue))]_vars

\* C13, as the source has it: the commands queued before the first Close of
\* a batch are applied, in their order, before the window is closed: the
\* window leaves the registry in the same step, and the native calls of the
\* close loop come after the calls of those commands.
C13_CloseAfterEarlier ==
    [][Changes =>
         \A id \in DOMAIN windows :
            HasClose(bevy_windows[id].command_queue) =>
               LET earlier == BeforeClose(bevy_windows[id].command_queue)
               IN  /\ id \notin DOMAIN windows'
                   /\ Len(calls'[id]) >= Len(earlier)
                   /\ SubSeq(calls'[id], 1, Len(earlier)) = NativeCallsOf(earlier)
                   /\ \A i \in (Len(earlier) + 1)..Len(calls'[id]) :
                         ~ByCommand(calls'[id][i])]_vars

\* A window has been resized and then closed by one batch while another
\* window stays: the resize precedes the hide.
C13_Witness ==
    /\ pc = "check"
    /\ DOMAIN windows # {}
    /\ \E id \in DOMAIN native \ DOMAIN windows :
          /\ Len(calls[id]) = 2
          /\ calls[id][1].fn = "glfwSetWindowSize"
          /\ calls[id][2].fn = "glfwHideWindow"

\* C14: once the Close of a window is reached no further command is applied
\* to it: the commands queued after the Close make no native call and change
\* nothing, the window has no command queue afterwards, and no later step
\* makes a native call for it or changes its native state.
C14_NothingAfterClose ==
    [][/\ Changes =>
            \A id \in DOMAIN windows :
               HasClose(bevy_windows[id].command_queue) =>
                  /\ CommandCalls(calls'[id]) =
                        NativeCallsOf(BeforeClose(bevy_windows[id].command_queue))
                  /\ id \notin DOMAIN bevy_windows'
                  /\ id \notin DOMAIN windows'
       /\ \A id \in DOMAIN native \ DOMAIN windows :
             /\ id \notin DOMAIN windows'
             /\ id \notin DOMAIN bevy_windows'
             /\ id \in DOMAIN native' =>
                  /\ native'[id] = native[id]
                  /\ calls'[id] = <<>>]_vars

\* change_window is about to process a batch with a command after its Close.
C14_Witness ==
    /\ pc = "update"
    /\ \E id \in DOMAIN windows :
          /\ Len(bevy_windows[id].command_queue) = 2
          /\ IsClose(bevy_windows[id].command_queue[1])
          /\ bevy_windows[id].command_queue[2].type = "SetResolution"
          /\ native[id].size # UVec2(3, 1)

(***************************************************************************)
(* Properties of the loop.                                                 *)
(***************************************************************************)
\* The step of the loop that sees the AppExit event and breaks.
Breaks == pc = "check" /\ pc' = "done"

\* The step of the loop that runs handle_create_window_events.
Creates == pc = "create" /\ pc' = "poll"

\* C15: when the loop sees the exit signal and breaks, every creation request
\* of the iteration has been processed: none is pending.
C15_CreatedBeforeExit ==
    [][Breaks => create_window_events = <<>>]_vars

\* C16: while the loop runs, the WindowIds of the registry are the WindowIds
\* of the application's windows, each with its native handle and its pending
\* records, and no lookup of the drain or of the command phase has failed.
C16_RegistryMatchesWindows ==
    /\ pc # "panicked"
    /\ DOMAIN windows = DOMAIN bevy_windows
    /\ DOMAIN windows \subseteq DOMAIN native
    /\ DOMAIN native = DOMAIN events

\* After creations and a close: window 1 is closed and hidden, window 2 is
\* registered, and the loop is before its drain.
C16_Witness ==
    /\ pc = "poll"
    /\ DOMAIN windows = {2}
    /\ DOMAIN bevy_windows = {2}
    /\ 1 \in DOMAIN native
    /\ ~native[1].visible

\* The WindowCreated events for window id among the events sent.
CreatedFor(out, id) ==
    {p \in UNION {{<<w, i>> : i \in DOMAIN out[w]} : w \in WindowIds} :
        /\ out[p[1]][p[2]].type = "WindowCreated"
        /\ out[p[1]][p[2]].id = id}

Requested == {create_window_events[i].id : i \in DOMAIN create_window_events}

\* C17: handle_create_window_events sends exactly one WindowCreated event
\* with the requested WindowId for every request, adds exactly the requested
\* ids to the registry and to the application's windows, and leaves the
\* request queue empty.
C17_OneWindowPerRequest ==
    [][Creates =>
         /\ \A id \in Requested :
               /\ Cardinality(CreatedFor(sent', id)) = 1
               /\ id \notin DOMAIN windows
               /\ id \in DOMAIN windows'
               /\ id \in DOMAIN native'
         /\ \A id \in WindowIds \ Requested : CreatedFor(sent', id) = {}
         /\ DOMAIN windows' = DOMAIN windows \cup Requested
         /\ DOMAIN bevy_windows' = DOMAIN bevy_windows \cup Requested
         /\ create_window_events' = <<>>]_vars

\* A request for window 2 has been processed.
C17_Witness ==
    /\ pc = "poll"
    /\ create_window_events = <<>>
    /\ 2 \in DOMAIN windows
    /\ sent[2] = <<[type |-> "WindowCreated", id |-> 2]>>

(***************************************************************************)
(* Properties of the order of the drain.                                   *)
(***************************************************************************)
\* The events a position, size, framebuffer-size or content-scale record is
\* translated into on its own.
Translation(id, record) ==
    CASE record.type = "WindowPos" ->
           <<[type |-> "WindowMoved", id |-> id, position |-> record.position]>>
      [] record.type = "WindowContentScale" ->
           <<[type |-> "WindowScaleFactorChanged", id |-> id,
              scale_factor |-> record.scale_factor],
             [type |-> "WindowBackendScaleFactorChanged", id |-> id,
              scale_factor |-> record.scale_factor]>>
      [] OTHER -> <<>>

RECURSIVE Translations(_, _)
Translations(id, q) ==
    IF q = <<>> THEN <<>>
    ELSE Translation(id, Head(q)) \o Translations(id, Tail(q))

NotResized(e) == e.type # "WindowResized"

\* The last record of q of the given type, or none.
LastOf(q, type) ==
    IF \E i \in DOMAIN q : q[i].type = type
    THEN q[CHOOSE i \in DOMAIN q :
              /\ q[i].type = type
              /\ \A j \in DOMAIN q : q[j].type = type => j <= i]
    ELSE Nothing

\* After the drain of q the cached state w2 of a window with cached state w1
\* holds what the last record of each kind says.
ReflectsLast(w1, w2, q) ==
    /\ w2.pos = IF LastOf(q, "WindowPos") = Nothing THEN w1.pos
                ELSE LastOf(q, "WindowPos").position
    /\ w2.size = IF LastOf(q, "WindowSize") = Nothing THEN w1.size
                 ELSE LastOf(q, "WindowSize").size
    /\ w2.scale_factor = IF LastOf(q, "WindowContentScale") = Nothing THEN w1.scale_factor
                         ELSE LastOf(q, "WindowContentScale").scale_factor

\* Record i of q, a size or framebuffer-size record, has its WindowResized
\* event sent before the WindowMoved event of the later position record j.
ResizedBeforeMoved(out, q, i, j) ==
    \E a, b \in DOMAIN out :
        /\ a < b
        /\ out[a].type = "WindowResized"
        /\ out[b].type = "WindowMoved"
        /\ out[b].position = q[j].position

\* C18, for every two records: the event of the earlier record is sent before
\* the event of the later one, the WindowResized event of a size record
\* included, and the cached state reflects the last record of each kind.
C18_ArrivalOrder ==
    [][Drains =>
         \A id \in DOMAIN windows :
            /\ SelectSeq(sent'[id], NotResized) = Translations(id, events[id])
            /\ ReflectsLast(windows[id], windows'[id], events[id])
            /\ \A i, j \in DOMAIN events[id] :
                  (/\ i < j
                   /\ events[id][i].type \in {"WindowSize", "FramebufferSize"}
                   /\ events[id][j].type = "WindowPos") =>
                     ResizedBeforeMoved(sent'[id], events[id], i, j)]_vars

\* C18, as the source has it: the events of the position and content-scale
\* records are sent in the order of arrival of the records; a size or
\* framebuffer-size record sends no event of its own, and the one
\* WindowResized event of the drain is the last event sent; the cached
\* position, size and scale after the drain are those of the last record of
\* each kind.
C18_DirectInOrderResizedLast ==
    [][Drains =>
         \A id \in DOMAIN windows :
            /\ SelectSeq(sent'[id], NotResized) = Translations(id, events[id])
            /\ ReflectsLast(windows[id], windows'[id], events[id])
            /\ \A a \in DOMAIN sent'[id] :
                  sent'[id][a].type = "WindowResized" => a = Len(sent'[id])]_vars

\* Two position records have been drained: two WindowMoved events in the
\* order of arrival, and the cached position is the later one.
C18_Witness ==
    /\ pc = "update"
    /\ Len(sent[1]) = 2
    /\ sent[1][1].type = "WindowMoved"
    /\ sent[1][2].type = "WindowMoved"
    /\ sent[1][1].position # sent[1][2].position
    /\ windows[1].pos = sent[1][2].position

(***************************************************************************)
(* Properties of the pending records over the loop.                        *)
(***************************************************************************)
\* q2 is q1 with records appended.
Extends(q1, q2) == Len(q2) > Len(q1) /\ SubSeq(q2, 1, Len(q1)) = q1

Polls == pc = "poll" /\ pc' = "poll"

\* C19, as stated: the events of a window grow only in the poll step and are
\* emptied only by the drain, and they are empty at the start of every
\* application update.
C19_GrowsOnlyInPoll ==
    [][/\ \A id \in DOMAIN events \cap DOMAIN events' :
             \/ events'[id] = events[id]
             \/ Extends(events[id], events'[id]) /\ Polls
             \/ events'[id] = <<>> /\ Drains
       /\ pc' = "update" => \A id \in DOMAIN windows' : events'[id] = <<>>]_vars

\* C19, as the source has it: the events of a window change only by records
\* being appended, by a callback of the poll step or by a callback that a
\* native call of change_window or of the creation of a window runs, and by
\* being emptied by the drain; whenever the application update starts or
\* goes on, the events of every window of the registry are empty.
C19_AppendedThenDrainedBeforeUpdate ==
    [][/\ \A id \in DOMAIN events \cap DOMAIN events' :
             \/ events'[id] = events[id]
             \/ /\ Extends(events[id], events'[id])
                /\ \/ Polls
                   \/ pc = "update" /\ calls'[id] # <<>>
                   \/ pc = "create"
             \/ events'[id] = <<>> /\ Drains
       /\ pc' = "update" => \A id \in DOMAIN windows' : events'[id] = <<>>]_vars

\* The records of a switch to full screen have been drained: the update
\* starts with the events empty and the events of the records sent.
C19_Witness ==
    /\ pc = "update"
    /\ native[1].monitor # NULL
    /\ events[1] = <<>>
    /\ \E a, b \in DOMAIN sent[1] :
          sent[1][a].type = "WindowMoved" /\ sent[1][b].type = "WindowResized"

(***************************************************************************)
(* Properties of the callbacks.                                            *)
(***************************************************************************)
\* A step of the poll phase: one callback runs, or panics.
CallbackRuns == pc = "poll" /\ pc' \in {"poll", "panicked"}

\* q2 is q1, or q1 with records appended.
Appended(q1, q2) == Len(q2) >= Len(q1) /\ SubSeq(q2, 1, Len(q1)) = q1

\* C20: a callback for a window changes nothing but the events of that
\* window, to which it only appends: the registry's cached state of every
\* window, the application's windows, events and requests and the events of
\* every other window stay as they are, and no native call is made.
C20_CallbackOnlyAppendsToItsWindow ==
    [][CallbackRuns =>
         /\ \E id \in DOMAIN events :
               /\ Appended(events[id], events'[id])
               /\ \A other \in DOMAIN events \ {id} : events'[other] = events[other]
         /\ DOMAIN events' = DOMAIN events
         /\ windows' = windows
         /\ bevy_windows' = bevy_windows
         /\ sent' = NoEvents
         /\ calls' = NoEvents
         /\ UNCHANGED <<create_window_events, app_exit, terminated>>]_vars

\* Files have been dropped onto window 2 while a record of another kind was
\* pending for window 1.
C20_Witness ==
    /\ pc = "poll"
    /\ DOMAIN windows = {1, 2}
    /\ events[1] # <<>>
    /\ events[1][1].type # "Drop"
    /\ events[2] # <<>>
    /\ events[2][Len(events[2])].type = "Drop"

(***************************************************************************)
(* Properties of the records the callbacks push.                           *)
(***************************************************************************)
\* The step appends n records to the events of window id.
Grows(id, n) ==
    /\ Len(events'[id]) = Len(events[id]) + n
    /\ Appended(events[id], events'[id])

\* A step of one of the callbacks that take no code point, scale or paths.
PlainCallback(id) ==
    \/ PollWindowClose(id)
    \/ PollWindowFocus(id, TRUE)
    \/ PollWindowPos(id, IVec2(5, 0))
    \/ PollWindowSize(id, UVec2(2, 2))
    \/ PollFramebufferSize(id, UVec2(2, 2))
    \/ PollScroll(id, 0, 1)
    \/ \E entered \in BOOLEAN : PollCursorEnter(id, entered)
    \/ PollCursorPos(id, IVec2(1, 1))
    \/ \E button \in {0, 3}, action \in {"GLFW_PRESS", "GLFW_RELEASE"} :
          PollMouseButton(id, button, action)
    \/ \E key_ \in {"GLFW_KEY_A", "GLFW_KEY_MENU", "GLFW_KEY_UNKNOWN"}, action \in {"GLFW_PRESS", "GLFW_REPEAT", "GLFW_RELEASE"} :
          PollKey(id, key_, 38, action)

\* A Unicode scalar value.
IsScalar(codepoint) == codepoint \in 0..55295 \/ codepoint \in 57344..1114111

Decodable(paths) == {i \in DOMAIN paths : paths[i].utf8}

\* C21, as stated: every callback appends exactly one record, for every
\* argument value, and a drop of N paths appends N records.
C21_ExactlyOneRecord ==
    [][\A id \in WindowIds :
          /\ PlainCallback(id) => Grows(id, 1)
          /\ \A scale \in {<<1, 1>>, <<3, 2>>} :
                PollWindowContentScale(id, scale[1], scale[2]) => Grows(id, 1)
          /\ \A codepoint \in {97, 55296, 1114112} : PollChar(id, codepoint) => Grows(id, 1)
          /\ \A paths \in DrawnDrops : PollDrop(id, paths) => Grows(id, Len(paths))]_vars

\* C21, as the source has it: every callback appends exactly one record,
\* but the content-scale callback with unequal scales panics and appends
\* none, the char callback with a value that is not a Unicode scalar value
\* appends none, and a drop appends one record per path that is valid
\* Unicode.
C21_OneRecordUnlessSkipped ==
    [][\A id \in WindowIds :
          /\ PlainCallback(id) => Grows(id, 1)
          /\ \A scale \in {<<1, 1>>, <<3, 2>>} :
                PollWindowContentScale(id, scale[1], scale[2]) =>
                   IF scale[1] = scale[2] THEN Grows(id, 1)
                   ELSE Grows(id, 0) /\ pc' = "panicked"
          /\ \A codepoint \in {97, 55296, 1114112} :
                PollChar(id, codepoint) =>
                   Grows(id, IF IsScalar(codepoint) THEN 1 ELSE 0)
          /\ \A paths \in DrawnDrops :
                PollDrop(id, paths) => Grows(id, Cardinality(Decodable(paths)))]_vars

\* A key and a mouse button callback have each pushed their record.
C21_Witness ==
    /\ pc = "poll"
    /\ Len(events[1]) = 2
    /\ events[1][1].type = "Key"
    /\ events[1][2].type = "MouseButton"

\* The records of a drop, path by path.
RECURSIVE DropRecords(_, _)
DropRecords(id, paths) ==
    IF paths = <<>> THEN <<>>
    ELSE (IF Head(paths).utf8
          THEN <<[type |-> "Drop", id |-> id, path |-> Head(paths).path]>>
          ELSE <<>>) \o DropRecords(id, Tail(paths))

\* C22: a drop in which some paths are not valid Unicode is not fatal: the
\* valid paths each give one Drop record, in their order, the others give
\* none, and the paths after an invalid one are still processed.
C22_InvalidPathsSkipped ==
    [][\A id \in WindowIds, paths \in DrawnDrops :
          PollDrop(id, paths) =>
             /\ events'[id] = events[id] \o DropRecords(id, paths)
             /\ pc' = "poll"]_vars

\* The drop of an invalid path followed by "a" has pushed the record of "a".
C22_Witness ==
    /\ pc = "poll"
    /\ events[1] = <<[type |-> "Drop", id |-> 1, path |-> "a"]>>

(***************************************************************************)
(* Properties of the cursor.                                               *)
(***************************************************************************)
\* The last command of q of the given type, or none.
LastCommand(q, type) ==
    IF \E i \in DOMAIN q : q[i].type = type
    THEN q[CHOOSE i \in DOMAIN q :
              /\ q[i].type = type
              /\ \A j \in DOMAIN q : q[j].type = type => j <= i]
    ELSE Nothing

\* locked > hidden > normal
CursorModeOf(locked, visible) ==
    CASE locked -> "GLFW_CURSOR_DISABLED"
      [] ~locked /\ visible -> "GLFW_CURSOR_NORMAL"
      [] ~locked /\ ~visible -> "GLFW_CURSOR_HIDDEN"

IsRawMotionCall(call) ==
    call.fn = "glfwSetInputMode" /\ call.mode = "GLFW_RAW_MOUSE_MOTION"

\* The native cursor mode of every window is the one of its flags, and raw
\* motion is the locked flag where it is supported and untouched elsewhere.
CursorModeApplied ==
    \A id \in DOMAIN windows :
       /\ native[id].cursor_mode =
             CursorModeOf(windows[id].cursor_locked, windows[id].cursor_visible)
       /\ native[id].raw_motion = (raw_motion_supported /\ windows[id].cursor_locked)
       /\ raw_motion_supported \/ SelectSeq(calls[id], IsRawMotionCall) = <<>>

\* C23: after the creation of a window and after every batch of commands the
\* flags of the window are the latest lock and visibility settings, the
\* visibility being kept while the cursor is locked, the native cursor mode
\* is disabled if locked, else normal if visible, else hidden, and raw
\* motion equals the locked flag exactly when the platform supports it.
C23_CursorModeFollowsFlags ==
    [][/\ CursorModeApplied
       /\ CursorModeApplied'
       /\ Changes =>
            \A id \in DOMAIN windows :
               /\ windows'[id].cursor_locked =
                     IF LastCommand(bevy_windows[id].command_queue, "SetCursorLockMode") = Nothing
                     THEN windows[id].cursor_locked
                     ELSE LastCommand(bevy_windows[id].command_queue,
                                      "SetCursorLockMode").locked
               /\ windows'[id].cursor_visible =
                     IF LastCommand(bevy_windows[id].command_queue, "SetCursorVisibility") = Nothing
                     THEN windows[id].cursor_visible
                     ELSE LastCommand(bevy_windows[id].command_queue,
                                      "SetCursorVisibility").visible]_vars

\* A hidden cursor has been locked and unlocked in one batch: the mode was
\* disabled and is hidden again.
C23_Witness ==
    /\ pc = "check"
    /\ ~windows[1].cursor_locked
    /\ ~windows[1].cursor_visible
    /\ native[1].cursor_mode = "GLFW_CURSOR_HIDDEN"
    /\ \E a, b \in DOMAIN calls[1] :
          /\ a < b
          /\ calls[1][a].fn = "glfwSetInputMode"
          /\ calls[1][a].value = "GLFW_CURSOR_DISABLED"
          /\ calls[1][b].fn = "glfwSetInputMode"
          /\ calls[1][b].value = "GLFW_CURSOR_HIDDEN"

\* For every CursorPos record of q, in order: its position (x, y) with the
\* cached height H and scale s at the time it is drained.
RECURSIVE CursorTrace(_, _, _)
CursorTrace(q, H, s) ==
    IF q = <<>> THEN <<>>
    ELSE CASE Head(q).type = "WindowSize" -> CursorTrace(Tail(q), Head(q).size.y, s)
           [] Head(q).type = "WindowContentScale" ->
                CursorTrace(Tail(q), H, Head(q).scale_factor)
           [] Head(q).type = "CursorPos" ->
                <<[x |-> Head(q).pos.x, y |-> Head(q).pos.y, H |-> H, s |-> s]>>
                    \o CursorTrace(Tail(q), H, s)
           [] OTHER -> CursorTrace(Tail(q), H, s)

IsCursorMoved(e) == e.type = "CursorMoved"

\* The physical cursor position stored after the cursor records t, last
\* being the one stored before.
PhysicalAfter(t, last) ==
    IF t = <<>> THEN last
    ELSE [x |-> t[Len(t)].x * t[Len(t)].s,
          y |-> (t[Len(t)].H - t[Len(t)].y) * t[Len(t)].s]

\* C24, as stated: the physical cursor position stored is (x*s, (H-y)*s) and
\* the CursorMoved event carries the position (x, y) as the native library
\* delivered it.
C24_UnconvertedForwarded ==
    [][Drains =>
         \A id \in DOMAIN windows :
            /\ bevy_windows'[id].physical_cursor_position =
                  PhysicalAfter(CursorTrace(events[id], windows[id].size.y,
                                            windows[id].scale_factor),
                                bevy_windows[id].physical_cursor_position)
            /\ SelectSeq(sent'[id], IsCursorMoved) =
                  [k \in DOMAIN CursorTrace(events[id], windows[id].size.y,
                                            windows[id].scale_factor) |->
                     [type |-> "CursorMoved", id |-> id,
                      position |->
                         [x |-> CursorTrace(events[id], windows[id].size.y,
                                            windows[id].scale_factor)[k].x,
                          y |-> CursorTrace(events[id], windows[id].size.y,
                                            windows[id].scale_factor)[k].y]]]]_vars

\* The CursorMoved events of a drain in which the cursor records were t.
MovedTo(id, t) ==
    [k \in DOMAIN t |->
       [type |-> "CursorMoved", id |-> id,
        position |-> [x |-> t[k].x, y |-> t[k].H - t[k].y]]]

\* C24, as the source has it: the physical cursor position stored is
\* (x*s, (H-y)*s), H and s being the cached height and scale when the record
\* is drained, and the CursorMoved event carries the logical position in the
\* bottom-left origin space, (x, H-y), not scaled.
C24_FlippedLogicalForwarded ==
    [][Drains =>
         \A id \in DOMAIN windows :
            /\ bevy_windows'[id].physical_cursor_position =
                  PhysicalAfter(CursorTrace(events[id], windows[id].size.y,
                                            windows[id].scale_factor),
                                bevy_windows[id].physical_cursor_position)
            /\ SelectSeq(sent'[id], IsCursorMoved) =
                  MovedTo(id, CursorTrace(events[id], windows[id].size.y,
                                          windows[id].scale_factor))]_vars

\* A cursor position (0, 2) has been drained after a content scale of 2 in
\* the same drain, the height being 2: the event carries (0, 0).
C24_Witness ==
    /\ pc = "update"
    /\ windows[1].size.y = 2
    /\ Len(sent[1]) >= 3
    /\ sent[1][1].type = "WindowScaleFactorChanged"
    /\ sent[1][1].scale_factor = 2
    /\ sent[1][3].type = "CursorMoved"
    /\ sent[1][3].position = [x |-> 0, y |-> 0]
    /\ bevy_windows[1].physical_cursor_position = [x |-> 0, y |-> 0]

(***************************************************************************)
(* Properties of the placement of windows.                                 *)
(***************************************************************************)
HasOverride(request) == request.descriptor.scale_factor_override # Nothing

IsCreateWindowCall(call) == call.fn = "glfwCreateWindow"

IsSetScaleFactor(command) == command.type = "SetScaleFactor"

\* C25: a scale factor override is fatal.  The creation of a window with an
\* override panics before glfwCreateWindow is called and before the window
\* is in the registry or in the application's windows or a WindowCreated
\* event is sent for it; a SetScaleFactor command panics, and when it is the
\* first command of its window it leaves the window as it was.
C25_OverrideFatal ==
    [][/\ (/\ pc = "create"
           /\ create_window_events # <<>>
           /\ HasOverride(Head(create_window_events))) =>
             /\ pc' = "panicked"
             /\ Head(create_window_events).id \notin
                   DOMAIN windows' \cup DOMAIN bevy_windows' \cup DOMAIN native'
             /\ CreatedFor(sent', Head(create_window_events).id) = {}
             /\ SelectSeq(calls'[Head(create_window_events).id], IsCreateWindowCall) = <<>>
       /\ \A id \in DOMAIN bevy_windows :
             (/\ pc = "update"
              /\ pc' # "update"
              /\ SelectSeq(bevy_windows[id].command_queue, IsSetScaleFactor) # <<>>) =>
                /\ pc' = "panicked"
                /\ IsSetScaleFactor(bevy_windows[id].command_queue[1]) =>
                      /\ windows'[id] = windows[id]
                      /\ native'[id] = native[id]
                      /\ calls'[id] = <<>>]_vars

\* The creation of window 2 with an override has panicked after the window
\* hints: window 1 is the only window.
C25_Witness ==
    /\ pc = "panicked"
    /\ DOMAIN windows = {1}
    /\ DOMAIN native = {1}
    /\ calls[2] = window_hints
    /\ sent[2] = <<>>

\* The position of a window of the given size centered on monitor mon.
CenterOn(mon, size) ==
    IVec2(mon.x + mon.width \div 2 - size.x \div 2,
          mon.y + mon.height \div 2 - size.y \div 2)

\* The step applies the one command Center(m) queued for window id.
Centers(id, m) ==
    /\ pc = "update"
    /\ pc' # "update"
    /\ id \in DOMAIN bevy_windows
    /\ bevy_windows[id].command_queue = <<[type |-> "Center", monitor |-> m]>>

OutOfRange(m) == m.sel = "Number" /\ m.idx >= Len(monitors)

\* The monitor a selection stands for.
Resolved(id, m) ==
    CASE m.sel = "Primary" -> monitors[1]
      [] m.sel = "Number" -> monitors[m.idx + 1]
      [] m.sel = "Current" -> monitors[current_monitor(windows[id])]

\* C26: Primary is the first monitor of the enumeration, Number(i) the
\* monitor at index i, which is fatal and moves nothing when i is out of
\* range, Current the result of current_monitor; with no monitor every
\* selection is fatal.
C26_SelectorResolution ==
    [][\A id \in WindowIds, m \in DrawnSelections :
          Centers(id, m) =>
             IF Len(monitors) = 0 \/ OutOfRange(m)
             THEN /\ pc' = "panicked"
                  /\ windows' = windows
                  /\ native' = native
                  /\ calls'[id] = <<>>
             ELSE /\ pc' = "check"
                  /\ windows'[id].pos = CenterOn(Resolved(id, m), windows[id].size)]_vars

\* Center(Number(1)) has put the 3 x 1 window on the second of the two
\* monitors.
C26_Witness ==
    /\ pc = "check"
    /\ monitors = TwoMonitors
    /\ windows[1].pos = IVec2(4, 1)
    /\ calls[1] = <<[fn |-> "glfwSetWindowPos", xpos |-> 4, ypos |-> 1]>>

IsSetWindowPosCall(call) == call.fn = "glfwSetWindowPos"

\* The step centers window id on the monitor of selection m.
CentersOn(id, m) == Centers(id, m) /\ Len(monitors) # 0 /\ ~OutOfRange(m)

\* C30, as stated: after center(monitor) the cached and the native position
\* of the window are (mx + mw/2 - w/2, my + mh/2 - h/2).
C30_CachedAndNativeCentered ==
    [][\A id \in WindowIds, m \in DrawnSelections :
          CentersOn(id, m) =>
             /\ windows'[id].pos = CenterOn(Resolved(id, m), windows[id].size)
             /\ native'[id].pos = CenterOn(Resolved(id, m), windows[id].size)]_vars

\* C30, as the source has it: after center(monitor) the cached position is
\* (mx + mw/2 - w/2, my + mh/2 - h/2) and glfwSetWindowPos has been called
\* with it; the native position is that position for a windowed window on a
\* platform other than Wayland, and is unchanged for a full screen window
\* and on Wayland.
C30_CachedCenteredNativeAsked ==
    [][\A id \in WindowIds, m \in DrawnSelections :
          CentersOn(id, m) =>
             /\ windows'[id].pos = CenterOn(Resolved(id, m), windows[id].size)
             /\ calls'[id] =
                   <<[fn |-> "glfwSetWindowPos",
                      xpos |-> CenterOn(Resolved(id, m), windows[id].size).x,
                      ypos |-> CenterOn(Resolved(id, m), windows[id].size).y]>>
             /\ native'[id].pos =
                   IF native[id].monitor = NULL /\ platform # "wayland"
                   THEN CenterOn(Resolved(id, m), windows[id].size)
                   ELSE native[id].pos]_vars

\* The 3 x 1 window has been centered on the 3 x 5 monitor at (-3, -1).
C30_Witness ==
    /\ pc = "check"
    /\ platform = "x11"
    /\ Len(monitors) = 2
    /\ monitors[2] = Monitor(-3, -1, 3, 5)
    /\ windows[1].size = UVec2(3, 1)
    /\ windows[1].pos = IVec2(-3, 1)
    /\ native[1].pos = IVec2(-3, 1)
    /\ SelectSeq(calls[1], IsSetWindowPosCall) # <<>>

\* Every collection of the application and of the runner is gone.
Dropped ==
    /\ windows = Empty
    /\ bevy_windows = Empty
    /\ events = Empty
    /\ create_window_events = <<>>

\* C27: the AppExit check of an iteration in which the exit signal has been
\* raised breaks the loop in that step: the state is dropped and the native
\* library terminated, once; nothing of the loop runs after the break (no
\* poll, no drain, no update); and the library is terminated only by an exit:
\* never while no exit signal has been raised.
C27_ExitBreaksAndTerminatesOnce ==
    /\ [][/\ (pc = "check" /\ app_exit) =>
                (pc' = "done" /\ Dropped' /\ terminated' = terminated + 1)
          /\ pc # "done"
          /\ terminated' # terminated => (Breaks /\ app_exit)]_vars
    /\ [](/\ terminated \in {0, 1}
          /\ terminated = 1 <=> pc = "done"
          /\ terminated = 1 => Dropped /\ native = Empty
          /\ ~app_exit => terminated = 0)

\* The loop has seen the exit signal and broken.
C27_Witness ==
    /\ pc = "done"
    /\ app_exit
    /\ terminated = 1
    /\ Dropped

\* The logical size cached after the drain of q by a window that had cached
\* size: that of the last window-size record, or size when there is none.
FinalSize(size, q) ==
    IF LastOf(q, "WindowSize") = Nothing THEN size ELSE LastOf(q, "WindowSize").size

\* C28: the drain of a window with at least one window-size, framebuffer-size
\* or content-scale record sends the WindowResized event of that window after
\* every other event of the window, and the event carries the logical size
\* cached at the end of the drain: the size of the last window-size record
\* drained, or the size cached before when there was none.
C28_ResizedLastWithFinalSize ==
    [][Drains =>
         \A id \in DOMAIN windows :
            SizeAffecting(events[id]) # {} =>
               /\ sent'[id] # <<>>
               /\ sent'[id][Len(sent'[id])] =
                     [type |-> "WindowResized", id |-> id,
                      width |-> FinalSize(windows[id].size, events[id]).x,
                      height |-> FinalSize(windows[id].size, events[id]).y]
               /\ windows'[id].size = FinalSize(windows[id].size, events[id])]_vars

\* A drain that resized the window to 3 x 1 and moved it has sent the
\* WindowMoved event and then the WindowResized event with 3 x 1.
C28_Witness ==
    /\ pc = "update"
    /\ windows[1].size = UVec2(3, 1)
    /\ Len(sent[1]) = 2
    /\ sent[1][1].type = "WindowMoved"
    /\ sent[1][2] = [type |-> "WindowResized", id |-> 1, width |-> 3, height |-> 1]

\* The glfwSetWindowMonitor call the claim gives for a set-mode command on
\* a window with cached state w.
ModeCall(w, command) ==
    LET target == current_monitor(w)
    IN  CASE command.mode = "Windowed" ->
               [fn |-> "glfwSetWindowMonitor", monitor |-> NULL,
                xpos |-> w.pre_fullscreen_pos.x, ypos |-> w.pre_fullscreen_pos.y,
                width |-> w.pre_fullscreen_size.x, height |-> w.pre_fullscreen_size.y]
          [] command.mode = "SizedFullscreen" ->
               [fn |-> "glfwSetWindowMonitor", monitor |-> target,
                xpos |-> 0, ypos |-> 0,
                width |-> command.resolution.x, height |-> command.resolution.y]
          [] OTHER ->
               [fn |-> "glfwSetWindowMonitor", monitor |-> target,
                xpos |-> 0, ypos |-> 0,
                width |-> monitors[target].width, height |-> monitors[target].height]

\* C29: a set-mode command that is not Windowed on a windowed window makes
\* one glfwSetWindowMonitor call: SizedFullscreen with the target monitor and
\* the requested resolution, BorderlessFullscreen and Fullscreen with the
\* target monitor and the size of its video mode, Windowed with no monitor
\* and the snapshot; the target monitor of every call of a batch is the one
\* current_monitor gives for the position and size cached before the batch.
C29_NativeArgumentsByMode ==
    [][Changes =>
         \A id \in DOMAIN windows :
            LET q == bevy_windows[id].command_queue
            IN  /\ (/\ Len(q) = 1
                    /\ IsSetWindowMode(q[1])
                    /\ ~(native[id].monitor = NULL /\ q[1].mode = "Windowed")) =>
                      calls'[id] = <<ModeCall(windows[id], q[1])>>
                /\ \A i \in DOMAIN calls'[id] :
                      calls'[id][i].fn = "glfwSetWindowMonitor" =>
                         calls'[id][i].monitor \in {NULL, current_monitor(windows[id])}]_vars

\* The window at (5, 0), on the second monitor, has been set to a full screen
\* mode that takes the monitor's 3 x 3 video mode.
C29_Witness ==
    /\ pc = "check"
    /\ platform = "x11"
    /\ windows[1].pos = IVec2(5, 0)
    /\ native[1].monitor = 2
    /\ calls[1] = <<[fn |-> "glfwSetWindowMonitor", monitor |-> 2,
                     xpos |-> 0, ypos |-> 0, width |-> 3, height |-> 3]>>

(***************************************************************************)
(* Properties of the creation of windows.                                  *)
(***************************************************************************)
\* What glfwGetWindowPos, glfwGetWindowSize and glfwGetWindowContentScale
\* answer right after the construction of the window of a request.
ReadBack(request) ==
    [pos |-> native_pos(request.env.pos),
     size |-> IF "size" \in DOMAIN request.env THEN request.env.size
              ELSE UVec2(request.descriptor.width, request.descriptor.height),
     scale_factor |-> request.env.scale.x]

\* The application's window holds what the registry has cached.
HandedOver(b, w) ==
    /\ b.position = w.pos
    /\ b.physical_size = w.size
    /\ b.backend_scale_factor = w.scale_factor

\* C31, as stated: after the creation of a window, the position, the size and
\* the scale factor that the registry caches and hands to the application are
\* the values read back after construction, for every descriptor.
C31_AllReadBack ==
    [][Creates =>
         \A i \in DOMAIN create_window_events :
            LET request == create_window_events[i]
                w == windows'[request.id]
            IN  /\ w.pos = ReadBack(request).pos
                /\ w.size = ReadBack(request).size
                /\ w.scale_factor = ReadBack(request).scale_factor
                /\ HandedOver(bevy_windows'[request.id], w)]_vars

\* C31, as the source has it: after the creation of a window, the size and
\* the scale factor that the registry caches and hands to the application are
\* the values read back after construction, for every descriptor; the
\* position is the value read back for a descriptor with an automatic
\* position, the requested position for one with an explicit position, and
\* the centered position, computed from the size read back, for one that
\* asks for centering.
C31_SizeAndScaleReadBack ==
    [][Creates =>
         \A i \in DOMAIN create_window_events :
            LET request == create_window_events[i]
                position == request.descriptor.position
                w == windows'[request.id]
            IN  /\ w.size = ReadBack(request).size
                /\ w.scale_factor = ReadBack(request).scale_factor
                /\ w.pos = CASE position.kind = "Automatic" -> ReadBack(request).pos
                             [] position.kind = "At" -> position.pos
                             [] OTHER -> CenterOn(monitors[1], ReadBack(request).size)
                /\ HandedOver(bevy_windows'[request.id], w)]_vars

\* Window 2, asked for as 2 x 2 at (2, 1), has been created 3 x 1 by the
\* platform: the registry and the application hold 3 x 1 and (2, 1).
C31_Witness ==
    /\ pc = "poll"
    /\ 2 \in DOMAIN windows
    /\ windows[2].size = UVec2(3, 1)
    /\ windows[2].pos = IVec2(2, 1)
    /\ bevy_windows[2].physical_size = UVec2(3, 1)
    /\ bevy_windows[2].position = IVec2(2, 1)
    /\ \E a \in DOMAIN sent[2] : sent[2][a].type = "WindowCreated"

(***************************************************************************)
(* Properties of the key callback.                                         *)
(***************************************************************************)
DrawnKeyInputs ==
    {"GLFW_KEY_A", "GLFW_KEY_MENU", "GLFW_KEY_UNKNOWN"}
        \X {"GLFW_PRESS", "GLFW_REPEAT", "GLFW_RELEASE"}

\* The key callback with the given action pushes a record of the given state.
KeyState(action, state) ==
    \A id \in WindowIds, input \in DrawnKeyInputs :
         (input[2] = action /\ PollKey(id, input[1], 38, action)) =>
            /\ Grows(id, 1)
            /\ Last(events'[id]).type = "Key"
            /\ Last(events'[id]).state = state

\* C32, as stated: the state of the record of a key callback is pressed for
\* a press, released for a release and repeated for a repeat.
C32_RepeatIsRepeated ==
    [][/\ KeyState("GLFW_PRESS", "Pressed")
       /\ KeyState("GLFW_RELEASE", "Released")
       /\ KeyState("GLFW_REPEAT", "Repeated")]_vars

\* C32, as the source has it: the state of the record of a key callback is
\* pressed for a press and for a repeat, and released for a release.
C32_RepeatIsPressed ==
    [][/\ KeyState("GLFW_PRESS", "Pressed")
       /\ KeyState("GLFW_RELEASE", "Released")
       /\ KeyState("GLFW_REPEAT", "Pressed")]_vars

\* Two key callbacks for the A key have left two pressed records in a row,
\* as a press and its repeat do.
C32_Witness ==
    /\ pc = "poll"
    /\ Len(events[1]) = 2
    /\ events[1][1] = [type |-> "Key", scan_code |-> 38, key_code |-> Some("A"),
                       state |-> "Pressed"]
    /\ events[1][2] = events[1][1]

(***************************************************************************)
(* Properties of the life of a window.                                     *)
(***************************************************************************)
IsWindowClose(record) == record.type = "WindowClose"
IsWindowCloseRequested(e) == e.type = "WindowCloseRequested"

\* C33: the drain of a window with window-close records sends one
\* WindowCloseRequested event for each and leaves the window in the registry,
\* its native window as it was; every drain drains every window of the
\* registry; and a window leaves the registry only in a change_window that
\* finds a Close among its commands.
C33_CloseRequestOnlyAsks ==
    [][/\ Drains =>
            \A id \in DOMAIN windows :
               /\ Len(SelectSeq(sent'[id], IsWindowCloseRequested)) =
                     Len(SelectSeq(events[id], IsWindowClose))
               /\ events'[id] = <<>>
               /\ id \in DOMAIN windows'
               /\ native'[id] = native[id]
       /\ \A id \in DOMAIN windows :
             id \notin DOMAIN windows' =>
                /\ Changes
                /\ \E i \in DOMAIN bevy_windows[id].command_queue :
                      IsClose(bevy_windows[id].command_queue[i])]_vars

\* The close of window 1 has been requested twice in one poll: two
\* WindowCloseRequested events, and the window is in the registry and shown.
C33_Witness ==
    /\ pc = "update"
    /\ 1 \in DOMAIN windows
    /\ native[1].visible
    /\ Len(SelectSeq(sent[1], IsWindowCloseRequested)) = 2

\* The events of out, whichever window's drain or close sent them, that
\* carry the WindowId id.
Carrying(out, id) ==
    {p \in UNION {{<<w, i>> : i \in DOMAIN out[w]} : w \in WindowIds} :
        /\ "id" \in DOMAIN out[p[1]][p[2]]
        /\ out[p[1]][p[2]].id = id}

\* The windows that have been closed: their native window is still there.
ClosedWindows == DOMAIN native \ DOMAIN windows

\* C34: the WindowClosed event is the only event that the step that closes a
\* window sends with its WindowId, and no later step sends an event with
\* that WindowId; the records that callbacks push for the closed window stay
\* in its events and are never drained.
C34_SilentAfterClosed ==
    [][/\ \A id \in DOMAIN windows \ DOMAIN windows' :
             Carrying(sent', id) = ClosedFor(sent', id)
       /\ \A id \in ClosedWindows :
             /\ id \in ClosedWindows'
             /\ Carrying(sent', id) = {}
             /\ Appended(events[id], events'[id])]_vars

\* Window 1 is closed and hidden, a move of it has been delivered after
\* that, and the drain of the loop, which drained window 2, has left it.
C34_Witness ==
    /\ pc = "update"
    /\ DOMAIN windows = {2}
    /\ 1 \in DOMAIN native
    /\ ~native[1].visible
    /\ events[1] = <<[type |-> "WindowPos", position |-> IVec2(5, 0)]>>
    /\ sent[1] = <<>>
    /\ sent[2] # <<>>

IsHideCall(call) == call.fn = "glfwHideWindow"

\* The windows closed by the step that took the last-window path: no
\* glfwHideWindow call has been made for them.
LastWindowPath == {id \in Closing : SelectSeq(calls'[id], IsHideCall) = <<>>}

\* C35: when change_window closes two or more windows, every one of them
\* leaves the registry; the one whose removal empties the registry, if the
\* step closes every window, takes the last-window path, its native window
\* left as it was, and no other does; every other closed window is windowed
\* and hidden, the hide being its last native call.
C35_LastWindowTestPerClose ==
    [][(Changes /\ Cardinality(Closing) >= 2) =>
         /\ DOMAIN windows' = DOMAIN windows \ Closing
         /\ Cardinality(LastWindowPath) = IF Closing = DOMAIN windows THEN 1 ELSE 0
         /\ \A id \in LastWindowPath :
               /\ native'[id] = native[id]
               /\ calls'[id] = <<>>
         /\ \A id \in Closing \ LastWindowPath :
               /\ native'[id].monitor = NULL
               /\ ~native'[id].visible
               /\ Last(calls'[id]).fn = "glfwHideWindow"]_vars

\* Both windows have been closed by one change_window: one is hidden, the
\* other, closed last, is still shown.
C35_Witness ==
    /\ pc = "check"
    /\ DOMAIN windows = {}
    /\ \E a, b \in DOMAIN native :
          /\ ClosedFor(sent, a) # {}
          /\ ClosedFor(sent, b) # {}
          /\ ~native[a].visible
          /\ native[b].visible

(***************************************************************************)
(* Properties of the cached position and size within a batch.              *)
(***************************************************************************)
IsSetter(command) == command.type \in {"SetPosition", "SetResolution"}

\* The cached state w once the set-position or set-size command is applied.
Set(w, command) ==
    IF command.type = "SetPosition" THEN [w EXCEPT !.pos = command.position]
    ELSE [w EXCEPT !.size = command.logical_resolution]

HasRecord(q, type) == \E i \in DOMAIN q : q[i].type = type

HasCommand(q, types) == \E i \in DOMAIN q : q[i].type \in types

\* C36: a set-position or set-size command sets the cached position or size
\* in the change_window that applies it, before any drain of the record of
\* a native callback, and the command that follows it in the
\* batch uses the new values: a center the size, a set-mode the position and
\* size for its target monitor and its snapshot, a set-cursor-position the
\* height.  The cached position changes only in a drain of a window-position
\* record and in a change_window with a command that calls set_pos
\* (set-position, center); the cached size only in a drain of a window-size
\* record and in a change_window with a set-size command.
C36_CacheSetImmediately ==
    [][/\ Changes =>
            \A id \in DOMAIN windows \cap DOMAIN windows' :
               LET q == bevy_windows[id].command_queue
                   w == windows[id]
               IN  /\ (Len(q) = 1 /\ IsSetter(q[1])) => windows'[id] = Set(w, q[1])
                   /\ (Len(q) = 2 /\ IsSetter(q[1]) /\ q[2].type = "Center") =>
                         /\ windows'[id].pos = CenterOn(monitors[1], Set(w, q[1]).size)
                         /\ Last(calls'[id]) =
                               [fn |-> "glfwSetWindowPos",
                                xpos |-> CenterOn(monitors[1], Set(w, q[1]).size).x,
                                ypos |-> CenterOn(monitors[1], Set(w, q[1]).size).y]
                   /\ (Len(q) = 2 /\ IsSetter(q[1]) /\ q[2].type = "SetWindowMode") =>
                         /\ Last(calls'[id]).fn = "glfwSetWindowMonitor"
                         /\ Last(calls'[id]).monitor = current_monitor(Set(w, q[1]))
                         /\ native[id].monitor = NULL =>
                               /\ windows'[id].pre_fullscreen_pos = Set(w, q[1]).pos
                               /\ windows'[id].pre_fullscreen_size = Set(w, q[1]).size
                   /\ (Len(q) = 2 /\ IsSetter(q[1]) /\ q[2].type = "SetCursorPosition") =>
                         Last(calls'[id]) =
                            [fn |-> "glfwSetCursorPos", xpos |-> q[2].position.x,
                             ypos |-> Set(w, q[1]).size.y - q[2].position.y]
       /\ \A id \in DOMAIN windows \cap DOMAIN windows' :
             /\ windows'[id].pos # windows[id].pos =>
                   \/ Drains /\ HasRecord(events[id], "WindowPos")
                   \/ Changes /\ HasCommand(bevy_windows[id].command_queue,
                                            {"SetPosition", "Center"})
             /\ windows'[id].size # windows[id].size =>
                   \/ Drains /\ HasRecord(events[id], "WindowSize")
                   \/ Changes /\ HasCommand(bevy_windows[id].command_queue,
                                            {"SetResolution"})]_vars

\* The window, on the first monitor, has been moved to (5, 0) and set to full
\* screen by one batch: it is full screen on the second monitor, the snapshot
\* is (5, 0), and the records of the callbacks are still to be drained.
C36_Witness ==
    /\ pc = "check"
    /\ windows[1].pos = IVec2(5, 0)
    /\ windows[1].pre_fullscreen_pos = IVec2(5, 0)
    /\ native[1].monitor = 2
    /\ Len(calls[1]) = 2
    /\ calls[1][1] = [fn |-> "glfwSetWindowPos", xpos |-> 5, ypos |-> 0]
    /\ calls[1][2].fn = "glfwSetWindowMonitor"
    /\ HasRecord(events[1], "WindowPos")

====
